---- MODULE Spec2Model ----
(***************************************************************************)
(* WaterBot device control engine: the Device Controller                   *)
(* (waterbot/gpio/handler.py) on top of the pin drivers                     *)
(* (waterbot/gpio/interface.py), with the threads that call into it: the   *)
(* chat transport's command thread, the scheduler worker firing jobs, the  *)
(* one-shot auto-toggle Timer threads, and the main thread running         *)
(* cleanup(); the controller's construction; the process shutdown and the  *)
(* restart of a crashed transport (waterbot/bot.py); the Schedule Store    *)
(* (waterbot/config.py) with its loading at import; and the Device         *)
(* Scheduler (waterbot/scheduler.py) with its job tables, its thread, its  *)
(* start() after a stop(), and get_next_runs().                            *)
(***************************************************************************)
EXTENDS Integers, Sequences, FiniteSets

(* ------------------------------------------------------------------ *)
(* Bounds                                                              *)
(* ------------------------------------------------------------------ *)

\* Number of threading.Timer objects a behaviour may create.
MaxTimers == 2

\* Number of Schedule Store calls a behaviour may make.
MaxStoreOps == 4

(* ------------------------------------------------------------------ *)
(* Device registry and thread identities                               *)
(* ------------------------------------------------------------------ *)

\* DEVICE_TO_PIN, in the insertion order the bulk operations iterate in.
DeviceOrder == <<"pump", "light">>

Devices == {DeviceOrder[i] : i \in 1..Len(DeviceOrder)}

DEVICE_TO_PIN == [d \in Devices |-> IF d = "pump" THEN 17 ELSE 18]

Pins == {DEVICE_TO_PIN[d] : d \in Devices}

\* Device names a caller may pass: the registered ones and one that is not.
Names == Devices \cup {"unknown"}

\* The three GPIOInterface implementations.
Backends == {"hardware", "emulation", "mock"}

\* Python's None for a timer handle and for the lock's owner.
None == 0

TimerIds == 1..MaxTimers

\* The chat transport thread that executes inbound commands.
ChatThread == MaxTimers + 1

\* The scheduler worker thread that fires due jobs.
WorkerThread == MaxTimers + 2

\* A scheduler thread that outlived the stop() of its scheduler.
FormerThread == MaxTimers + 3

Callers == {ChatThread, WorkerThread}

\* Every thread that can run turn_on/turn_off: callers and Timer threads.
Threads == TimerIds \cup Callers \cup {FormerThread}

VARIABLES
    backend,        \* which GPIOInterface the controller holds
    setup_pins,     \* driver: pins configured by setup()
    pin_states,     \* driver: pin -> level (TRUE = HIGH), a dict
    released,       \* driver: cleanup() has been called on it
    device_status,  \* DeviceController.device_status
    device_timers,  \* DeviceController.device_timers: device -> Timer or None
    gpio_lock,      \* DeviceController.gpio_lock: owning thread or None
    timers,         \* the Timer objects created so far
    call,           \* per thread: the turn_on/turn_off call it is executing,
                    \* or the outcome of its last call
    bulk,           \* the chat thread's current or last turn_all_on/off
    cln,            \* the main thread's position in cleanup()
    stage,          \* per device: how many commands of the scenario
                    \* turn_on(d), turn_on(d, T), turn_off(d) were issued
    running,        \* DeviceScheduler.running
    main,           \* the main thread's position in main()
    sig,            \* the position of handle_shutdown, run by a signal
    sigcln,         \* handle_shutdown's position in its own cleanup()
    DEVICE_SCHEDULES,  \* config.DEVICE_SCHEDULES: device -> action -> times
    schedule_file,  \* the content of SCHEDULE_CONFIG_FILE
    environ,        \* the SCHEDULE_<DEVICE>_<ACTION> declarations
    writable,       \* whether SCHEDULE_CONFIG_FILE can be opened for writing
    store_call,     \* the last Schedule Store call and what it returned
    store_ops,      \* number of Schedule Store calls made
    imported,       \* whether "import waterbot.config" ran, and how it ended
    ENABLE_SCHEDULING,  \* config.ENABLE_SCHEDULING
    scheduled_jobs, \* DeviceScheduler.scheduled_jobs
    jobs,           \* schedule.jobs: the job table of the schedule library
    created,        \* number of Job objects created so far
    worker,         \* the scheduler thread: its position in _run_scheduler
    former,         \* a thread that a stop() left behind and a later start()
                    \* replaced: its position in _run_scheduler
    notified,       \* the calls of _send_discord_notification made so far
    sched_call,     \* the Device Scheduler call in progress, or the last one
    ticks           \* number of times the clock reached a schedule time

gpioVars == <<backend, setup_pins, pin_states, released>>

ctlVars == <<device_status, device_timers, gpio_lock, timers>>

shutVars == <<running, main, sig, sigcln>>

storeVars == <<DEVICE_SCHEDULES, schedule_file, environ, writable, store_call,
               store_ops>>

schedVars == <<imported, ENABLE_SCHEDULING, former, scheduled_jobs, jobs, created,
               worker, former, notified, sched_call, ticks>>

\* What the Device Controller's own operations never touch.
auxVars == <<shutVars, storeVars, schedVars>>

vars == <<backend, setup_pins, pin_states, released, device_status,
          device_timers, gpio_lock, timers, call, bulk, cln, stage,
          running, main, sig, sigcln, DEVICE_SCHEDULES, schedule_file,
          environ, writable, store_call, store_ops, imported,
          ENABLE_SCHEDULING, former, scheduled_jobs, jobs, created, worker, former,
          notified, sched_call, ticks>>

(* ------------------------------------------------------------------ *)
(* Pin drivers (gpio/interface.py)                                     *)
(* ------------------------------------------------------------------ *)

\* dict assignment d[k] = v
DictPut(f, k, v) == [x \in (DOMAIN f) \cup {k} |-> IF x = k THEN v ELSE f[x]]

\* dict.clear()
EmptyDict == [x \in {} |-> FALSE]

\* output() raises RuntimeError: only EmulationGPIO checks that the pin was
\* set up; HardwareGPIO retries after configuring the pin, MockGPIO records.
OutputRaises(pin) == backend = "emulation" /\ pin \notin setup_pins

\* setup_pins after a successful output(pin, value): HardwareGPIO configures
\* the pin as an output when the first write fails.
OutputSetupPins(pin) ==
    IF backend = "hardware" THEN setup_pins \cup {pin} ELSE setup_pins

\* pin_states after a successful output(pin, value).
OutputPinStates(pin, value) == DictPut(pin_states, pin, value)

\* The level a pin shows: get_pin_state(pin), with "unset" for a missing key.
PinLevel(pin) == IF pin \in DOMAIN pin_states THEN pin_states[pin] ELSE FALSE

PinWritten(pin) == pin \in DOMAIN pin_states

(* ------------------------------------------------------------------ *)
(* Records                                                             *)
(* ------------------------------------------------------------------ *)

\* pc: where the thread is; op, dev, tmo: the arguments of the call it is
\* in; timer: the local variable "timer" (the handle found at entry);
\* ret: the value its last call returned.
IdleCall == [pc |-> "idle", op |-> "none", dev |-> "none", tmo |-> FALSE,
             timer |-> 0, ret |-> FALSE]

\* kind, tmo: the bulk operation and its timeout argument; idx: the loop's
\* position in DEVICE_TO_PIN.keys(); success: the local variable; visited:
\* the devices whose individual call returned; alone: no other thread wrote
\* a status since the operation began.
NoBulk == [kind |-> "none", idx |-> 0, tmo |-> FALSE, success |-> TRUE,
           visited |-> {}, alone |-> TRUE]

UnusedTimer == [state |-> "unused", device |-> "none", action |-> "none",
                old |-> FALSE]

IdleCleanup == "idle"

\* DeviceController.__init__ with _setup_devices: every pin configured and
\* written LOW, every status False, every timer None, the lock free.
DevicesReady ==
    /\ backend \in Backends
    /\ setup_pins = Pins
    /\ pin_states = [p \in Pins |-> FALSE]
    /\ released = FALSE
    /\ device_status = [d \in Devices |-> FALSE]
    /\ device_timers = [d \in Devices |-> None]
    /\ gpio_lock = None
    /\ timers = [t \in TimerIds |-> UnusedTimer]
    /\ call = [t \in Threads |-> IdleCall]
    /\ bulk = NoBulk
    /\ cln = IdleCleanup
    /\ stage = [d \in Devices |-> 0]

\* The process in service: the controller ready, the scheduler started and
\* main() serving.
ControllerInit ==
    /\ DevicesReady
    /\ running = TRUE
    /\ main = "serving"
    /\ sig = "none"
    /\ sigcln = IdleCleanup

\* No Schedule Store call was made yet.
NoStoreCall == [op |-> "none", device |-> "none", action |-> "none",
                time |-> <<>>, ret |-> FALSE]

\* SCHEDULE_CONFIG_FILE as load_schedules() finds it. exists:
\* os.path.exists(); decodes: its bytes are text in the encoding open() reads
\* with; valid: the text is a JSON document; text: the members of the
\* document.
NoFile == [exists |-> FALSE, decodes |-> FALSE, valid |-> FALSE, text |-> <<>>]

\* No schedule file, no SCHEDULE_ declaration: the store is empty.
StoreUnused ==
    /\ DEVICE_SCHEDULES = EmptyDict
    /\ schedule_file = NoFile
    /\ environ = <<>>
    /\ writable = TRUE
    /\ store_call = NoStoreCall
    /\ store_ops = 0

\* The scheduler thread before start(). batch: the jobs that run_pending()
\* found due, in the order it runs them; idx: the position of its loop in
\* them; success: the local variable of job().
IdleWorker == [pc |-> "unstarted", batch |-> <<>>, idx |-> 0,
               success |-> FALSE]

\* No Device Scheduler call was made yet.
NoSchedCall == [op |-> "none", device |-> "none", action |-> "none",
                time |-> <<>>, pc |-> "idle", ret |-> FALSE]

\* DeviceScheduler.__init__: not running, no thread, no job; scheduling
\* enabled.
SchedulerFresh ==
    /\ ENABLE_SCHEDULING = TRUE
    /\ scheduled_jobs = <<>>
    /\ jobs = <<>>
    /\ created = 0
    /\ worker = IdleWorker
    /\ former = IdleWorker
    /\ notified = <<>>
    /\ sched_call = NoSchedCall
    /\ ticks = 0

\* The config module was imported and the scheduler is unused.
SchedulerUnused == imported = "yes" /\ SchedulerFresh

Init == ControllerInit /\ StoreUnused /\ SchedulerUnused


(* ------------------------------------------------------------------ *)
(* threading.Timer                                                     *)
(* ------------------------------------------------------------------ *)

\* A Timer object that can no longer act: cancelled before it fired, or
\* ended after its function returned.
Dead(state) == [state |-> state, device |-> "none", action |-> "none",
                old |-> FALSE]

\* Variant: cancel() that does not stop a waiting timer.
CancelTimerNoEffect(ts, h) == ts

\* Timer.cancel(): sets the finished event. A timer that is still waiting
\* will never run its function; one that already passed the check in run()
\* (fired) or ended is not affected.
CancelTimer(ts, h) ==
    IF ts[h].state = "waiting" THEN [ts EXCEPT ![h] = Dead("cancelled")] ELSE ts

\* The handle of the next Timer object: the first id not used yet.
FreshTimer == CHOOSE n \in TimerIds :
                 /\ timers[n].state = "unused"
                 /\ \A m \in TimerIds : m < n => timers[m].state # "unused"

\* Timer objects already created.
UsedTimers == {n \in TimerIds : timers[n].state # "unused"}

\* Timers that the calls in progress are still going to create.
OwedTimers ==
    Cardinality({t \in Callers : call[t].pc \in {"output", "status"}
                                 /\ call[t].tmo})
    + (IF bulk.kind # "none" /\ bulk.tmo
          /\ call[ChatThread].pc \in {"next", "output", "status"}
       THEN Len(DeviceOrder) - bulk.idx
            + (IF call[ChatThread].pc = "next" THEN 1 ELSE 0)
       ELSE 0)

\* Room for k more Timer objects within MaxTimers.
TimerRoom(k) == Cardinality(UsedTimers) + OwedTimers + k <= MaxTimers

(* ------------------------------------------------------------------ *)
(* DeviceController.turn_on / turn_off (gpio/handler.py)               *)
(* ------------------------------------------------------------------ *)

\* The pin level each operation writes: turn_on HIGH, turn_off LOW.
Level(op) == op = "on"

\* Variant: every timer calls turn_off, also the one of turn_off.
OppositeAlwaysOff(op) == "off"

\* The operation the one-shot timer of an operation calls back.
Opposite(op) == IF op = "on" THEN "off" ELSE "on"

\* "if device not in DEVICE_TO_PIN: return False"
KnownDevice(dev) == dev \in Devices

\* A thread between calls: never called, returned, or left by exception.
Resting(t) == call[t].pc \in {"idle", "done", "raised"}

\* What a caller holds after a call that ended: its result, or the
\* exception. The scheduler's job hands the result on at once.
Outcome(t, pc, ret) ==
    IF t \in {WorkerThread, FormerThread} THEN IdleCall
    ELSE [IdleCall EXCEPT !.pc = pc, !.ret = ret]

\* Variant: the existing timer is left running.
CancelExistingSkipped(ts, h) == ts

\* The timer table after "timer = self.device_timers[device];
\* if timer is not None: timer.cancel()".
CancelExisting(ts, h) == IF h # None THEN CancelTimer(ts, h) ELSE ts

\* Variant: the body of turn_on/turn_off is entered without waiting for the
\* lock to be free.
LockAndCancelNoLock(t, op, dev, tmo) ==
    /\ gpio_lock' = t
    /\ timers' = IF device_timers[dev] # None
                 THEN CancelTimer(timers, device_timers[dev]) ELSE timers
    /\ device_timers' = [device_timers EXCEPT ![dev] = None]
    /\ call' = [call EXCEPT ![t] = [pc |-> "output", op |-> op, dev |-> dev,
                                    tmo |-> tmo, timer |-> device_timers[dev],
                                    ret |-> FALSE]]

\* Thread t enters "with self.gpio_lock:" of turn_on/turn_off(dev, tmo) and
\* cancels the existing timer of dev, clearing its handle.
LockAndCancel(t, op, dev, tmo) ==
    /\ gpio_lock = None
    /\ gpio_lock' = t
    /\ timers' = CancelExisting(timers, device_timers[dev])
    /\ device_timers' = [device_timers EXCEPT ![dev] = None]
    /\ call' = [call EXCEPT ![t] = [pc |-> "output", op |-> op, dev |-> dev,
                                    tmo |-> tmo, timer |-> device_timers[dev],
                                    ret |-> FALSE]]

\* Variant: an unknown device is reported as a success.
RejectedAsSuccess(t, dev) ==
    [call EXCEPT ![t] = [pc |-> "done", op |-> "none", dev |-> dev,
                         tmo |-> FALSE, timer |-> 0, ret |-> TRUE]]

\* "logger.warning(f"Unknown device: {device}"); return False": the caller
\* is left with the result.
Rejected(t, dev) ==
    [call EXCEPT ![t] = [IdleCall EXCEPT !.pc = "done", !.dev = dev,
                                         !.ret = FALSE]]

\* A caller thread runs turn_on/turn_off(dev, timeout) up to the cancellation
\* of the existing timer, or to "return False" for an unknown device. The
\* scheduler's jobs call without a timeout (scheduler.py job()).
Invoke(t, op, dev, tmo) ==
    /\ t \in Callers
    /\ Resting(t)
    /\ t = WorkerThread => (~tmo /\ KnownDevice(dev))
    /\ IF KnownDevice(dev)
       THEN /\ tmo => TimerRoom(1)
            /\ LockAndCancel(t, op, dev, tmo)
       ELSE /\ call' = Rejected(t, dev)
            /\ UNCHANGED <<device_timers, gpio_lock, timers>>
    /\ UNCHANGED <<gpioVars, device_status, bulk, cln>>

\* A command of the chat transport or a job of the scheduler.
Call(t, op, dev, tmo) ==
    Invoke(t, op, dev, tmo) /\ UNCHANGED <<stage, auxVars>>

\* Timer.run(): the interval elapsed and the finished event is not set, so
\* the thread calls its function, turn_off(device) or turn_on(device), and
\* waits for the lock.
TimerExpire(n) ==
    /\ timers[n].state = "waiting"
    /\ timers' = [timers EXCEPT ![n].state = "fired"]
    /\ call' = [call EXCEPT ![n] = [IdleCall EXCEPT !.pc = "acquire",
                                       !.op = timers[n].action,
                                       !.dev = timers[n].device]]
    /\ UNCHANGED <<gpioVars, device_status, device_timers, gpio_lock, bulk, cln,
                   stage, auxVars>>

\* The callback of a fired timer gets the lock.
TimerEnter(n) ==
    /\ n \in TimerIds
    /\ call[n].pc = "acquire"
    /\ LockAndCancel(n, call[n].op, call[n].dev, FALSE)
    /\ UNCHANGED <<gpioVars, device_status, bulk, cln, stage, auxVars>>

\* "success = True; for device in DEVICE_TO_PIN.keys():" of turn_all_on /
\* turn_all_off, up to its first individual call.
BulkCall(kind, tmo) ==
    /\ Resting(ChatThread)
    /\ tmo => TimerRoom(Len(DeviceOrder))
    /\ bulk' = [kind |-> kind, idx |-> 1, tmo |-> tmo, success |-> TRUE,
                visited |-> {}, alone |-> TRUE]
    /\ call' = [call EXCEPT ![ChatThread] = Outcome(ChatThread, "next", FALSE)]
    /\ UNCHANGED <<gpioVars, ctlVars, cln, stage, auxVars>>

\* The single operation a bulk operation applies to each device.
BulkOp(kind) == IF kind = "all_on" THEN "on" ELSE "off"

\* The bulk operation's individual turn_on/turn_off(device, timeout) for the
\* device at idx gets the lock (every key of DEVICE_TO_PIN is registered).
BulkEnter ==
    /\ call[ChatThread].pc = "next"
    /\ LockAndCancel(ChatThread, BulkOp(bulk.kind), DeviceOrder[bulk.idx],
                     bulk.tmo)
    /\ UNCHANGED <<gpioVars, device_status, bulk, cln, stage, auxVars>>

\* The thread's call ends by an exception: a Timer thread dies, a caller is
\* left with the exception (it also ends a bulk operation in progress).
Raised(t) ==
    IF t \in TimerIds THEN [call EXCEPT ![t] = IdleCall]
    ELSE [call EXCEPT ![t] = Outcome(t, "raised", FALSE)]

\* "self.gpio.output(pin, True/False)". When the driver raises, the
\* exception leaves the with block (the lock is released) and the call.
Output(t) ==
    /\ call[t].pc = "output"
    /\ LET pin == DEVICE_TO_PIN[call[t].dev]
       IN IF OutputRaises(pin)
          THEN /\ gpio_lock' = None
               /\ call' = Raised(t)
               /\ timers' = IF t \in TimerIds
                            THEN [timers EXCEPT ![t] = Dead("done")] ELSE timers
               /\ bulk' = IF t = ChatThread THEN NoBulk ELSE bulk
               /\ UNCHANGED <<setup_pins, pin_states>>
          ELSE /\ setup_pins' = OutputSetupPins(pin)
               /\ pin_states' = OutputPinStates(pin, Level(call[t].op))
               /\ call' = [call EXCEPT ![t].pc = "status"]
               /\ UNCHANGED <<gpio_lock, timers, bulk>>
    /\ UNCHANGED <<backend, released, device_status, device_timers, cln>>

\* The write of a command, of a timer callback or of a job in the process
\* at large.
WritePin(t) == Output(t) /\ UNCHANGED <<stage, auxVars>>

\* Variant: the timer of an operation calls the same operation again.
StartTimerSameOp(ts, n, dev, op) ==
    [ts EXCEPT ![n] = [state |-> "waiting", device |-> dev, action |-> op,
                       old |-> FALSE]]

\* The timer table after "if timeout: self.device_timers[device] =
\* Timer(timeout, lambda: self.turn_off/turn_on(device)); timer.start()".
StartTimer(ts, n, dev, op) ==
    [ts EXCEPT ![n] = [state |-> "waiting", device |-> dev,
                       action |-> Opposite(op), old |-> FALSE]]

\* "if not self.turn_on(device, timeout): success = False"
Aggregate(success, ret) == success /\ ret

\* Whether the bulk loop goes on to another device after the one at idx.
BulkMore(idx) == idx < Len(DeviceOrder)

\* The bulk operation after an individual call returned ret: on to the
\* next device, or over ("return success").
BulkAfter(b, dev, ret) ==
    IF BulkMore(b.idx)
    THEN [b EXCEPT !.success = Aggregate(b.success, ret),
                   !.visited = @ \cup {dev}, !.idx = @ + 1]
    ELSE NoBulk

\* What thread t holds after its call on dev returned True: a Timer thread
\* ends; a caller keeps the result; a bulk operation goes on or returns.
Returned(t) ==
    IF t \in TimerIds THEN [call EXCEPT ![t] = IdleCall]
    ELSE IF t = ChatThread /\ bulk.kind # "none"
    THEN IF BulkMore(bulk.idx)
         THEN [call EXCEPT ![t] = Outcome(t, "next", FALSE)]
         ELSE [call EXCEPT ![t] = Outcome(t, "done",
                                          Aggregate(bulk.success, TRUE))]
    ELSE [call EXCEPT ![t] = Outcome(t, "done", TRUE)]

\* "self.device_status[device] = True/False; if timeout: ...", the end of
\* the with block (the lock is released) and "return True".
Complete(t) ==
    /\ call[t].pc = "status"
    /\ LET d == call[t].dev
       IN /\ device_status' = [device_status EXCEPT ![d] = Level(call[t].op)]
          /\ IF call[t].tmo
             THEN /\ timers' = StartTimer(timers, FreshTimer, d, call[t].op)
                  /\ device_timers' = [device_timers EXCEPT ![d] = FreshTimer]
             ELSE /\ timers' = IF t \in TimerIds
                               THEN [timers EXCEPT ![t] = Dead("done")]
                               ELSE timers
                  /\ UNCHANGED device_timers
          /\ bulk' = IF bulk.kind = "none" THEN bulk
                     ELSE IF t = ChatThread THEN BulkAfter(bulk, d, TRUE)
                     ELSE [bulk EXCEPT !.alone = FALSE]
    /\ gpio_lock' = None
    /\ call' = Returned(t)
    /\ UNCHANGED <<gpioVars, cln>>

\* The end of a call of a command, of a timer callback or of a job in the
\* process at large.
Finish(t) == Complete(t) /\ UNCHANGED <<stage, auxVars>>

(* ------------------------------------------------------------------ *)
(* DeviceController.cleanup (main thread; takes no lock)               *)
(* ------------------------------------------------------------------ *)

\* The timer table after "for device in self.device_timers: timer =
\* self.device_timers[device]; if timer is not None: timer.cancel()"; the
\* handles stay in device_timers.
RECURSIVE CancelAll(_, _)
CancelAll(ts, i) ==
    IF i > Len(DeviceOrder) THEN ts
    ELSE CancelAll(CancelExisting(ts, device_timers[DeviceOrder[i]]), i + 1)

\* The first loop of cleanup(): every timer that has a handle is cancelled.
CancelTimers ==
    /\ timers' = CancelAll(timers, 1)
    /\ UNCHANGED <<gpioVars, device_status, device_timers, gpio_lock, call,
                   bulk, stage>>

\* "for device in DEVICE_TO_PIN.keys(): self.device_status[device] = False"
ResetStatus ==
    /\ device_status' = [d \in Devices |-> FALSE]
    /\ bulk' = IF bulk.kind = "none" THEN bulk ELSE [bulk EXCEPT !.alone = FALSE]
    /\ UNCHANGED <<gpioVars, device_timers, gpio_lock, timers, call, stage>>

\* Variant: a driver whose cleanup() configures the pins again when none is
\* configured.
ReleasedTogglesSetup == IF setup_pins = {} THEN Pins ELSE {}

\* setup_pins after the driver's cleanup(): EmulationGPIO clears its dict,
\* RPi.GPIO.cleanup() unconfigures every channel, MockGPIO keeps no such set.
ReleasedSetupPins == IF backend = "mock" THEN setup_pins ELSE {}

\* "if self.gpio: self.gpio.cleanup()". The timers that exist now are the
\* ones installed before this cleanup.
ReleaseDriver ==
    /\ pin_states' = EmptyDict
    /\ setup_pins' = ReleasedSetupPins
    /\ released' = TRUE
    /\ timers' = [n \in TimerIds |->
                     IF timers[n].state \in {"waiting", "fired"}
                     THEN [timers[n] EXCEPT !.old = TRUE] ELSE timers[n]]
    /\ UNCHANGED <<backend, device_status, device_timers, gpio_lock, call,
                   bulk, stage>>

\* cleanup() is entered (stop_bot() of a transport, or main()'s final
\* cleanup) and cancels the timers.
CleanupCancel ==
    /\ cln = "idle"
    /\ CancelTimers
    /\ cln' = "status"
    /\ UNCHANGED auxVars

\* The second loop of cleanup().
CleanupStatus ==
    /\ cln = "status"
    /\ ResetStatus
    /\ cln' = "gpio"
    /\ UNCHANGED auxVars

\* The driver is released and cleanup() returns.
CleanupGpio ==
    /\ cln = "gpio"
    /\ ReleaseDriver
    /\ cln' = "idle"
    /\ UNCHANGED auxVars

(* ------------------------------------------------------------------ *)
(* Specifications                                                      *)
(* ------------------------------------------------------------------ *)

Ops == {"on", "off"}

\* The controller in service: commands, jobs and timer callbacks.
NextLive ==
    \/ \E t \in Callers, op \in Ops, dev \in Names, tmo \in BOOLEAN :
          Call(t, op, dev, tmo)
    \/ \E n \in TimerIds : TimerExpire(n)
    \/ \E n \in TimerIds : TimerEnter(n)
    \/ \E kind \in {"all_on", "all_off"}, tmo \in BOOLEAN : BulkCall(kind, tmo)
    \/ BulkEnter
    \/ \E t \in Threads : WritePin(t)
    \/ \E t \in Threads : Finish(t)

\* cleanup() on the main thread.
NextCleanup ==
    \/ CleanupCancel
    \/ CleanupStatus
    \/ CleanupGpio

Next == NextLive \/ NextCleanup

\* The whole process: the controller with cleanup() callable at any time.
Spec == Init /\ [][Next]_vars

\* The controller between construction and the first cleanup().
SpecLive == Init /\ [][NextLive]_vars

(* ------------------------------------------------------------------ *)
(* The scenario turnOn(d), turnOn(d, timeout), turnOff(d)              *)
(* ------------------------------------------------------------------ *)

\* The three commands of the scenario, in order.
Script == <<[op |-> "on", tmo |-> FALSE], [op |-> "on", tmo |-> TRUE],
            [op |-> "off", tmo |-> FALSE]>>

\* The chat thread issues the next command of the scenario on device d.
ScenarioCall(d) ==
    /\ \A e \in Devices \ {d} : stage[e] = 0
    /\ stage[d] < Len(Script)
    /\ Invoke(ChatThread, Script[stage[d] + 1].op, d, Script[stage[d] + 1].tmo)
    /\ stage' = [stage EXCEPT ![d] = @ + 1]
    /\ UNCHANGED auxVars

\* A scheduled job on a device the scenario is not about.
JobElsewhere(op, dev) ==
    /\ stage[dev] = 0
    /\ Call(WorkerThread, op, dev, FALSE)

NextScenario ==
    \/ \E d \in Devices : ScenarioCall(d)
    \/ \E op \in Ops, dev \in Devices : JobElsewhere(op, dev)
    \/ \E n \in TimerIds : TimerExpire(n)
    \/ \E n \in TimerIds : TimerEnter(n)
    \/ \E t \in Threads : WritePin(t)
    \/ \E t \in Threads : Finish(t)

\* A fresh controller on which the chat thread runs the scenario while
\* timers expire and jobs fire on other devices.
SpecScenario == Init /\ [][NextScenario]_vars


(* ------------------------------------------------------------------ *)
(* Process shutdown (waterbot/bot.py)                                  *)
(* ------------------------------------------------------------------ *)

\* The step of cleanup() at position pos.
CleanupBody(pos) ==
    \/ pos = "idle" /\ CancelTimers
    \/ pos = "status" /\ ResetStatus
    \/ pos = "gpio" /\ ReleaseDriver

\* The position in cleanup() after the step at pos ("idle": it returned).
CleanupAfter(pos) ==
    IF pos = "idle" THEN "status" ELSE IF pos = "status" THEN "gpio" ELSE "idle"

\* The process has not exited: its threads still run.
Alive == main # "exited"

\* No signal handler is running on the main thread.
MainRuns == Alive /\ sig = "none"

\* A command of the chat transport, served while the bot runs (the
\* commands of interest here are "on" with a timeout: they install the
\* timers that cleanup() has to cancel).
ShutCommand(op, dev, tmo) ==
    /\ main = "serving" /\ MainRuns
    /\ Call(ChatThread, op, dev, tmo)

\* "while self.running: schedule.run_pending()": a job fires.
ShutJob(op, dev) ==
    /\ Alive /\ running
    /\ Call(WorkerThread, op, dev, FALSE)

\* "except KeyboardInterrupt: break": main() leaves its loop for the final
\* cleanup, which begins with "bot.stop_bot()".
MainInterrupted ==
    /\ main = "serving" /\ MainRuns
    /\ Resting(ChatThread)
    /\ main' = "stop_bot"
    /\ UNCHANGED <<gpioVars, ctlVars, call, bulk, cln, stage, running, sig,
                   sigcln, storeVars, schedVars>>

\* What main() does after a cleanup() that it called returned.
MainAfterCleanup(m) == IF m = "stop_bot" THEN "stop_scheduler" ELSE "exited"

\* A step of the cleanup() that main() runs: through "bot.stop_bot()", then
\* again as "gpio_handler.cleanup()".
MainCleanup ==
    /\ main \in {"stop_bot", "cleanup"} /\ MainRuns
    /\ CleanupBody(cln)
    /\ cln' = CleanupAfter(cln)
    /\ main' = IF cln = "gpio" THEN MainAfterCleanup(main) ELSE main
    /\ UNCHANGED <<running, sig, sigcln, storeVars, schedVars>>

\* "scheduler.stop_scheduler()" in main(): self.running = False.
MainStopScheduler ==
    /\ main = "stop_scheduler" /\ MainRuns
    /\ running' = FALSE
    /\ main' = "cleanup"
    /\ UNCHANGED <<gpioVars, ctlVars, call, bulk, cln, stage, sig, sigcln,
                   storeVars, schedVars>>

\* SIGINT/SIGTERM: handle_shutdown starts on the main thread, between two
\* commands of the transport or anywhere in main()'s final cleanup, whose
\* frame it suspends; it begins with "handle_shutdown.bot.stop_bot()".
SignalArrives ==
    /\ MainRuns
    /\ Resting(ChatThread)
    /\ sig' = "stop_bot"
    /\ sigcln' = IdleCleanup
    /\ UNCHANGED <<gpioVars, ctlVars, call, bulk, cln, stage, running, main,
                   storeVars, schedVars>>

\* A step of the cleanup() that handle_shutdown runs through stop_bot().
SignalCleanup ==
    /\ Alive /\ sig = "stop_bot"
    /\ CleanupBody(sigcln)
    /\ sigcln' = CleanupAfter(sigcln)
    /\ sig' = IF sigcln = "gpio" THEN "stop_scheduler" ELSE sig
    /\ UNCHANGED <<cln, running, main, storeVars, schedVars>>

\* "scheduler.stop_scheduler(); sys.exit(0)" in handle_shutdown: the
\* suspended frame of main() is never resumed.
SignalStopScheduler ==
    /\ Alive /\ sig = "stop_scheduler"
    /\ running' = FALSE
    /\ sig' = "exit"
    /\ main' = "exited"
    /\ UNCHANGED <<gpioVars, ctlVars, call, bulk, cln, stage, sigcln,
                   storeVars, schedVars>>

NextShutdown ==
    \/ \E dev \in Devices : ShutCommand("on", dev, TRUE)
    \/ \E op \in Ops, dev \in Devices : ShutJob(op, dev)
    \/ \E n \in TimerIds : Alive /\ TimerExpire(n)
    \/ \E n \in TimerIds : Alive /\ TimerEnter(n)
    \/ \E t \in Threads : Alive /\ WritePin(t)
    \/ \E t \in Threads : Alive /\ Finish(t)
    \/ MainInterrupted
    \/ MainCleanup
    \/ MainStopScheduler
    \/ SignalArrives
    \/ SignalCleanup
    \/ SignalStopScheduler

\* main() runs on the driver that _initialize_gpio() chose: HardwareGPIO or
\* EmulationGPIO.
InitShutdown == Init /\ backend \in {"hardware", "emulation"}

\* The process from service to its exit, by the normal path or by a signal.
SpecShutdown == InitShutdown /\ [][NextShutdown]_vars

(* ------------------------------------------------------------------ *)
(* DeviceController.__init__ and _setup_devices (gpio/handler.py)      *)
(* ------------------------------------------------------------------ *)

\* DeviceController.__init__ before "self._setup_devices()": the driver
\* fresh (no pin configured, no level written), both maps empty, the lock
\* free; no thread has the controller yet.
InitConstruct ==
    /\ backend \in Backends
    /\ setup_pins = {}
    /\ pin_states = EmptyDict
    /\ released = FALSE
    /\ device_status = EmptyDict
    /\ device_timers = EmptyDict
    /\ gpio_lock = None
    /\ timers = [t \in TimerIds |-> UnusedTimer]
    /\ call = [t \in Threads |-> IdleCall]
    /\ bulk = NoBulk
    /\ cln = IdleCleanup
    /\ stage = [d \in Devices |-> 0]
    /\ running = TRUE /\ main = "serving" /\ sig = "none"
    /\ sigcln = IdleCleanup
    /\ StoreUnused
    /\ SchedulerUnused

\* _setup_devices() has returned: its loop went through DEVICE_TO_PIN.
Constructed == DOMAIN device_timers = Devices

\* The device the loop "for device, pin in DEVICE_TO_PIN.items()" is at.
NextDevice ==
    DeviceOrder[CHOOSE i \in 1..Len(DeviceOrder) :
                   /\ DeviceOrder[i] \notin DOMAIN device_timers
                   /\ \A k \in 1..(i - 1) :
                         DeviceOrder[k] \in DOMAIN device_timers]

\* pin_states after "self.gpio.setup(pin, 'OUT')" and
\* "self.gpio.output(pin, False)": the drivers' setup() sets the level
\* False, and the write sets it again.
SetupPinStates(ps, pin) == DictPut(DictPut(ps, pin, FALSE), pin, FALSE)

\* Variant: a device is registered as switched on.
SetupStatusOn(ds, device) == DictPut(ds, device, TRUE)

\* "self.device_status[device] = False"
SetupStatus(ds, device) == DictPut(ds, device, FALSE)

\* One pass of the loop of _setup_devices().
SetupDevice ==
    /\ ~Constructed
    /\ setup_pins' = setup_pins \cup {DEVICE_TO_PIN[NextDevice]}
    /\ pin_states' = SetupPinStates(pin_states, DEVICE_TO_PIN[NextDevice])
    /\ device_status' = SetupStatus(device_status, NextDevice)
    /\ device_timers' = DictPut(device_timers, NextDevice, None)
    /\ UNCHANGED <<backend, released, gpio_lock, timers, call, bulk, cln,
                   stage, auxVars>>

\* Commands served by the constructed controller: one that installs a
\* timer, plain ones, and one for a device that is not registered.
ConstructCommands ==
    { [op |-> "on", dev |-> "pump", tmo |-> TRUE],
      [op |-> "off", dev |-> "pump", tmo |-> FALSE],
      [op |-> "on", dev |-> "light", tmo |-> FALSE],
      [op |-> "on", dev |-> "unknown", tmo |-> FALSE] }

\* The controller in use once it is constructed: the commands of the chat
\* transport, the timers they install, and cleanup().
NextConstruct ==
    \/ SetupDevice
    \/ \E c \in ConstructCommands :
          Constructed /\ Call(ChatThread, c.op, c.dev, c.tmo)
    \/ \E n \in TimerIds : Constructed /\ TimerExpire(n)
    \/ \E n \in TimerIds : Constructed /\ TimerEnter(n)
    \/ \E t \in Threads : Constructed /\ WritePin(t)
    \/ \E t \in Threads : Constructed /\ Finish(t)
    \/ Constructed /\ CleanupCancel
    \/ Constructed /\ CleanupStatus
    \/ Constructed /\ CleanupGpio

\* The controller from its construction on.
SpecConstruct == InitConstruct /\ [][NextConstruct]_vars

(* ------------------------------------------------------------------ *)
(* The transport crashes and main() restarts it (waterbot/bot.py)      *)
(* ------------------------------------------------------------------ *)

\* "except Exception as e:" of main()'s loop: bot.start_bot() raised, the
\* transport serves no command any more and main() goes to
\* "bot.stop_bot()".
BotCrashes ==
    /\ main = "serving" /\ MainRuns
    /\ Resting(ChatThread)
    /\ main' = "crashed"
    /\ UNCHANGED <<gpioVars, ctlVars, call, bulk, cln, stage, running, sig,
                   sigcln, storeVars, schedVars>>

\* A step of the cleanup() that "bot.stop_bot()" of the except block runs;
\* when it returns main() goes to "time.sleep(30)".
CrashCleanup ==
    /\ main = "crashed" /\ MainRuns
    /\ CleanupBody(cln)
    /\ cln' = CleanupAfter(cln)
    /\ main' = IF cln = "gpio" THEN "sleeping" ELSE main
    /\ UNCHANGED <<running, sig, sigcln, storeVars, schedVars>>

\* "continue": a new WaterBot is made and serves commands, on the same
\* controller (the module's _controller is made once).
BotRestarts ==
    /\ main = "sleeping" /\ MainRuns
    /\ main' = "serving"
    /\ UNCHANGED <<gpioVars, ctlVars, call, bulk, cln, stage, running, sig,
                   sigcln, storeVars, schedVars>>

NextCrash ==
    \/ \E op \in Ops, dev \in Devices, tmo \in BOOLEAN :
          ShutCommand(op, dev, tmo)
    \/ \E op \in Ops, dev \in Devices : ShutJob(op, dev)
    \/ \E n \in TimerIds : TimerExpire(n)
    \/ \E n \in TimerIds : TimerEnter(n)
    \/ \E t \in Threads : WritePin(t)
    \/ \E t \in Threads : Finish(t)
    \/ BotCrashes
    \/ CrashCleanup
    \/ BotRestarts

\* The process in service while its transport crashes and is restarted;
\* the scheduler keeps running.
SpecCrash == InitShutdown /\ [][NextCrash]_vars

(* ------------------------------------------------------------------ *)
(* Schedule Store (waterbot/config.py): times and lists                *)
(* ------------------------------------------------------------------ *)

\* A time string is the sequence of its characters.
Digits == {"0", "1", "2", "3", "4", "5", "6", "7", "8", "9"}

\* int() of one digit.
DigitValue(c) ==
    CASE c = "0" -> 0 [] c = "1" -> 1 [] c = "2" -> 2 [] c = "3" -> 3
      [] c = "4" -> 4 [] c = "5" -> 5 [] c = "6" -> 6 [] c = "7" -> 7
      [] c = "8" -> 8 [] c = "9" -> 9

\* The code point of a character of a time string (the order of str.sort).
Ord(c) == IF c \in Digits THEN 48 + DigitValue(c)
          ELSE IF c = ":" THEN 58 ELSE IF c = " " THEN 32
          ELSE IF c = "-" THEN 45 ELSE 10

\* Two digits, a colon, two digits.
ClockShape(s) ==
    /\ Len(s) = 5
    /\ s[1] \in Digits /\ s[2] \in Digits
    /\ s[3] = ":"
    /\ s[4] \in Digits /\ s[5] \in Digits

\* re.match(r"^\d{2}:\d{2}$", s): "$" also matches before a final newline.
MatchesTimePattern(s) ==
    \/ ClockShape(s)
    \/ Len(s) = 6 /\ ClockShape(SubSeq(s, 1, 5)) /\ s[6] = "\n"

\* "hour, minute = time_str.split(":"); int(hour) <= 23 and int(minute) <= 59"
HourOf(s) == 10 * DigitValue(s[1]) + DigitValue(s[2])

MinuteOf(s) == 10 * DigitValue(s[4]) + DigitValue(s[5])

InClockRange(s) == HourOf(s) <= 23 /\ MinuteOf(s) <= 59

\* s < t for Python strings: the first differing character decides, a
\* proper prefix is smaller.
RECURSIVE StrLess(_, _)
StrLess(s, t) ==
    IF t = <<>> THEN FALSE
    ELSE IF s = <<>> THEN TRUE
    ELSE IF Ord(Head(s)) # Ord(Head(t)) THEN Ord(Head(s)) < Ord(Head(t))
    ELSE StrLess(Tail(s), Tail(t))

\* x in list
InList(x, list) == \E i \in 1..Len(list) : list[i] = x

\* The sorted list with x put after the elements that are not greater.
RECURSIVE InsertSorted(_, _)
InsertSorted(x, list) ==
    IF list = <<>> THEN <<x>>
    ELSE IF StrLess(x, Head(list)) THEN <<x>> \o list
    ELSE <<Head(list)>> \o InsertSorted(x, Tail(list))

\* list.sort()
RECURSIVE SortList(_)
SortList(list) ==
    IF list = <<>> THEN <<>>
    ELSE InsertSorted(Head(list), SortList(Tail(list)))

\* list.remove(x): the first occurrence goes.
RECURSIVE RemoveFirst(_, _)
RemoveFirst(x, list) ==
    IF list = <<>> THEN <<>>
    ELSE IF Head(list) = x THEN Tail(list)
    ELSE <<Head(list)>> \o RemoveFirst(x, Tail(list))

\* del d[k]
DictDel(f, k) ==
    IF DOMAIN f \ {k} = {} THEN EmptyDict ELSE [x \in DOMAIN f \ {k} |-> f[x]]

(* ------------------------------------------------------------------ *)
(* Schedule Store: the dict, the file, the operations                  *)
(* ------------------------------------------------------------------ *)

\* The order json.dump writes the keys of the two levels in: the registered
\* devices, then a device that is not registered (any more).
ActionOrder == <<"on", "off">>

NameOrder == DeviceOrder \o <<"unknown">>

\* The keys of dict f, in the given order.
KeysIn(f, order) == SelectSeq(order, LAMBDA k : k \in DOMAIN f)

\* json.dump of one device's node: the members "action": [times].
DumpNode(node) ==
    LET ks == KeysIn(node, ActionOrder)
    IN [i \in 1..Len(ks) |-> <<ks[i], node[ks[i]]>>]

\* json.dump(DEVICE_SCHEDULES, f): the members "device": {...} of the text.
JsonDump(store) ==
    LET ks == KeysIn(store, NameOrder)
    IN [i \in 1..Len(ks) |-> <<ks[i], DumpNode(store[ks[i]])>>]

\* The member of a dumped object that has the key k.
MemberAt(members, k) ==
    members[CHOOSE i \in 1..Len(members) : members[i][1] = k]

\* json.load of one device's object: the dict action -> times.
LoadNode(members) ==
    IF members = <<>> THEN EmptyDict
    ELSE [k \in {members[i][1] : i \in 1..Len(members)} |->
             MemberAt(members, k)[2]]

\* json.load(f) of a text that json.dump wrote: the dict device -> node.
JsonLoad(text) ==
    IF text = <<>> THEN EmptyDict
    ELSE [k \in {text[i][1] : i \in 1..Len(text)} |->
             LoadNode(MemberAt(text, k)[2])]

\* DEVICE_SCHEDULES[device][action], or the empty list where a key is absent.
ListOf(store, device, action) ==
    IF device \in DOMAIN store /\ action \in DOMAIN store[device]
    THEN store[device][action] ELSE <<>>

\* The store with DEVICE_SCHEDULES[device][action] = list, the nodes created
\* where absent.
WithList(store, device, action, list) ==
    DictPut(store, device,
            DictPut(IF device \in DOMAIN store THEN store[device] ELSE EmptyDict,
                    action, list))

\* Variant: the clean-up leaves the node of the device in place.
WithoutListKeepsDevice(store, device, action) ==
    DictPut(store, device, DictDel(store[device], action))

\* The store after "del DEVICE_SCHEDULES[device][action]" and, when the node
\* of the device is empty then, "del DEVICE_SCHEDULES[device]".
WithoutList(store, device, action) ==
    IF DictDel(store[device], action) = EmptyDict THEN DictDel(store, device)
    ELSE DictPut(store, device, DictDel(store[device], action))

\* The file after save_schedules() of the store: rewritten when it can be
\* opened for writing, as it was otherwise (save_schedules returns False).
SavedFile(store) ==
    IF writable
    THEN [exists |-> TRUE, decodes |-> TRUE, valid |-> TRUE,
          text |-> JsonDump(store)]
    ELSE schedule_file

\* Variant: save_schedules() reports a success whatever happened.
SaveAlwaysTrue == TRUE

\* What save_schedules() returns: True after the dump, False on IOError.
SaveReturns == writable

\* Characters that str.strip() removes.
Whitespace == {" ", "\n"}

\* s.lstrip()
RECURSIVE LStrip(_)
LStrip(s) ==
    IF s # <<>> /\ Head(s) \in Whitespace THEN LStrip(Tail(s)) ELSE s

\* s.rstrip()
RECURSIVE RStrip(_)
RStrip(s) ==
    IF s # <<>> /\ s[Len(s)] \in Whitespace
    THEN RStrip(SubSeq(s, 1, Len(s) - 1)) ELSE s

\* time_str.strip()
Strip(s) == RStrip(LStrip(s))

\* The times a SCHEDULE_ declaration contributes: its tokens stripped, the
\* well-formed ones kept in the order written.
EnvTimes(value) ==
    SelectSeq([i \in 1..Len(value) |-> Strip(value[i])],
              LAMBDA t : MatchesTimePattern(t) /\ InClockRange(t))

\* The fallback of load_schedules(): each declaration with a registered
\* device, an action on/off and at least one well-formed time sets the list.
RECURSIVE EnvFallback(_, _, _)
EnvFallback(store, env, i) ==
    IF i > Len(env) THEN store
    ELSE LET e == env[i]
             use == /\ e.device \in Devices /\ e.action \in Ops
                    /\ EnvTimes(e.value) # <<>>
         IN EnvFallback(IF use
                        THEN WithList(store, e.device, e.action, EnvTimes(e.value))
                        ELSE store,
                        env, i + 1)

\* json.load(f) raises an exception that "except (json.JSONDecodeError,
\* IOError)" does not catch: a file whose bytes are not text in the
\* encoding of open() gives UnicodeDecodeError, a ValueError.
LoadRaises(file) == file.exists /\ ~file.decodes

\* load_schedules(): the file when it exists and parses, else the
\* declarations of the environment.
LoadSchedules(store, file, env) ==
    IF file.exists /\ file.valid THEN JsonLoad(file.text)
    ELSE EnvFallback(store, env, 1)

\* get_schedules(device)
GetSchedules(device) ==
    IF device \in DOMAIN DEVICE_SCHEDULES THEN DEVICE_SCHEDULES[device]
    ELSE EmptyDict

\* Time arguments: two valid times, a one-digit hour, an hour and a minute
\* out of range.
T0800 == <<"0", "8", ":", "0", "0">>

T2000 == <<"2", "0", ":", "0", "0">>

T800 == <<"8", ":", "0", "0">>

T2500 == <<"2", "5", ":", "0", "0">>

T1260 == <<"1", "2", ":", "6", "0">>

TimeInputs == {T0800, T2000, T800, T2500}

\* SCHEDULE_<DEVICE>_<ACTION>=HH:MM[,HH:MM,...] declarations a process may
\* start with: none; times not in ascending order; a time written twice;
\* malformed times and an unregistered device.
EnvChoices ==
    { <<>>,
      <<[device |-> "pump", action |-> "on", value |-> <<T2000, T0800>>]>>,
      <<[device |-> "pump", action |-> "on", value |-> <<T0800, T0800>>]>>,
      <<[device |-> "light", action |-> "off", value |-> <<T800, T1260, T2000>>],
        [device |-> "unknown", action |-> "on", value |-> <<T0800>>]>> }

\* The schedule file a process may start with: none, one that does not
\* parse, or one that an earlier process saved.
FileChoices ==
    { NoFile,
      [exists |-> TRUE, decodes |-> TRUE, valid |-> FALSE, text |-> <<>>],
      [exists |-> TRUE, decodes |-> TRUE, valid |-> TRUE,
       text |-> JsonDump(WithList(EmptyDict, "pump", "on", <<T0800>>))],
      [exists |-> TRUE, decodes |-> TRUE, valid |-> TRUE,
       text |-> JsonDump(WithList(WithList(EmptyDict, "light", "off",
                                           <<T0800, T2000>>),
                                  "pump", "off", <<T2000>>))] }

\* "Load schedules on import": load_schedules() into the empty dict.
InitStore ==
    /\ ControllerInit
    /\ backend = "emulation"
    /\ environ \in EnvChoices
    /\ schedule_file \in FileChoices
    /\ writable \in BOOLEAN
    /\ DEVICE_SCHEDULES = LoadSchedules(EmptyDict, schedule_file, environ)
    /\ store_call = NoStoreCall
    /\ store_ops = 0
    /\ SchedulerUnused

\* The checks of add_schedule that make it return False at once.
AddAccepts(device, action, time) ==
    /\ KnownDevice(device)
    /\ action \in Ops
    /\ MatchesTimePattern(time)

\* "if time not in DEVICE_SCHEDULES[device][action]"
AddAppends(device, action, time) ==
    /\ AddAccepts(device, action, time)
    /\ ~InList(time, ListOf(DEVICE_SCHEDULES, device, action))

\* add_schedule(device, action, time)
ConfigAddSchedule(device, action, time) ==
    /\ store_ops < MaxStoreOps
    /\ store_ops' = store_ops + 1
    /\ IF AddAppends(device, action, time)
       THEN /\ DEVICE_SCHEDULES' =
                  WithList(DEVICE_SCHEDULES, device, action,
                           SortList(Append(ListOf(DEVICE_SCHEDULES, device,
                                                  action), time)))
            /\ schedule_file' = SavedFile(DEVICE_SCHEDULES')
            /\ store_call' = [op |-> "add", device |-> device,
                              action |-> action, time |-> time,
                              ret |-> SaveReturns]
       ELSE /\ UNCHANGED <<DEVICE_SCHEDULES, schedule_file>>
            /\ store_call' = [op |-> "add", device |-> device,
                              action |-> action, time |-> time,
                              ret |-> AddAccepts(device, action, time)]
    /\ UNCHANGED <<environ, writable>>

\* add_schedule called on the store directly.
AddSchedule(device, action, time) ==
    /\ ConfigAddSchedule(device, action, time)
    /\ UNCHANGED <<gpioVars, ctlVars, call, bulk, cln, stage, shutVars,
                   schedVars>>

\* Variant: the condition does not look at the time.
RemoveFindsAnyTime(device, action, time) ==
    ListOf(DEVICE_SCHEDULES, device, action) # <<>>

\* The condition of remove_schedule: the triple is in the store.
RemoveFinds(device, action, time) ==
    InList(time, ListOf(DEVICE_SCHEDULES, device, action))

\* The store after the removal and the clean-up of empty entries.
Removed(store, device, action, time) ==
    LET list == RemoveFirst(time, store[device][action])
    IN IF list = <<>> THEN WithoutList(store, device, action)
       ELSE WithList(store, device, action, list)

\* remove_schedule(device, action, time)
ConfigRemoveSchedule(device, action, time) ==
    /\ store_ops < MaxStoreOps
    /\ store_ops' = store_ops + 1
    /\ IF RemoveFinds(device, action, time)
       THEN /\ DEVICE_SCHEDULES' = Removed(DEVICE_SCHEDULES, device, action, time)
            /\ schedule_file' = SavedFile(DEVICE_SCHEDULES')
            /\ store_call' = [op |-> "remove", device |-> device,
                              action |-> action, time |-> time,
                              ret |-> SaveReturns]
       ELSE /\ UNCHANGED <<DEVICE_SCHEDULES, schedule_file>>
            /\ store_call' = [op |-> "remove", device |-> device,
                              action |-> action, time |-> time,
                              ret |-> FALSE]
    /\ UNCHANGED <<environ, writable>>

\* remove_schedule called on the store directly.
RemoveSchedule(device, action, time) ==
    /\ ConfigRemoveSchedule(device, action, time)
    /\ UNCHANGED <<gpioVars, ctlVars, call, bulk, cln, stage, shutVars,
                   schedVars>>

\* The file becomes writable or stops being so (permissions, disk).
SetWritable(b) ==
    /\ writable # b
    /\ writable' = b
    /\ UNCHANGED <<gpioVars, ctlVars, call, bulk, cln, stage, shutVars,
                   schedVars, DEVICE_SCHEDULES, schedule_file, environ,
                   store_call, store_ops>>

\* "import waterbot.config" runs load_schedules(): the module is imported
\* with DEVICE_SCHEDULES loaded, or the import ends by the exception.
ImportConfig ==
    /\ imported = "no"
    /\ IF LoadRaises(schedule_file)
       THEN imported' = "raised" /\ UNCHANGED DEVICE_SCHEDULES
       ELSE /\ imported' = "yes"
            /\ DEVICE_SCHEDULES' =
                  LoadSchedules(DEVICE_SCHEDULES, schedule_file, environ)
    /\ UNCHANGED <<gpioVars, ctlVars, call, bulk, cln, stage, shutVars,
                   schedule_file, environ, writable, store_call, store_ops,
                   ENABLE_SCHEDULING, scheduled_jobs, jobs, created, worker,
                   former, notified, sched_call, ticks>>

\* Tokens of a declaration's value: a word, and a time with a space.
TInvalid == <<"i", "n", "v", "a", "l", "i", "d">>

TSpaced == <<" ", "0", "8", ":", "0", "0">>

\* The values of the declarations: one time, the malformed tokens of the
\* tests, a minute out of range, times out of order with spaces.
LoadValues ==
    { <<T0800>>, <<T800, T2500, TInvalid>>, <<T1260>>, <<T2000, TSpaced>> }

\* One declaration: SCHEDULE_PUMP_ON, SCHEDULE_GARDEN_ON (no such device),
\* SCHEDULE_PUMP_FILE (like SCHEDULE_CONFIG_FILE: no such action), ...
LoadDeclarations ==
    [device : {"pump", "unknown"}, action : {"on", "file"}, value : LoadValues]

\* The environment of a process: at most two declarations.
LoadEnvChoices ==
    {<<>>} \cup {<<e>> : e \in LoadDeclarations}
           \cup {<<e, f>> : e \in LoadDeclarations, f \in LoadDeclarations}

\* The schedule file of a process: as before, or one that is not text.
LoadFileChoices ==
    FileChoices
    \cup {[exists |-> TRUE, decodes |-> FALSE, valid |-> FALSE, text |-> <<>>]}

\* The process before "import waterbot.config": DEVICE_SCHEDULES = {}.
InitLoad ==
    /\ ControllerInit
    /\ backend = "emulation"
    /\ environ \in LoadEnvChoices
    /\ schedule_file \in LoadFileChoices
    /\ writable = TRUE
    /\ DEVICE_SCHEDULES = EmptyDict
    /\ store_call = NoStoreCall
    /\ store_ops = 0
    /\ imported = "no"
    /\ SchedulerFresh

NextLoad == ImportConfig

\* Load-on-init: the import of the config module.
SpecLoad == InitLoad /\ [][NextLoad]_vars

\* The argument triples of the calls: every time on pump/on, one valid
\* triple on two other nodes, an unregistered device and an unknown action.
StoreInputs ==
    {[device |-> "pump", action |-> "on", time |-> t] : t \in TimeInputs}
    \cup {[device |-> "pump", action |-> "off", time |-> T0800],
          [device |-> "light", action |-> "off", time |-> T2000],
          [device |-> "unknown", action |-> "on", time |-> T0800],
          [device |-> "pump", action |-> "toggle", time |-> T0800]}

NextStore ==
    \/ \E i \in StoreInputs : AddSchedule(i.device, i.action, i.time)
    \/ \E i \in StoreInputs : RemoveSchedule(i.device, i.action, i.time)
    \/ \E b \in BOOLEAN : SetWritable(b)

\* The Schedule Store from its load on import, under calls of add_schedule
\* and remove_schedule.
SpecStore == InitStore /\ [][NextStore]_vars

(* ------------------------------------------------------------------ *)
(* Device Scheduler (waterbot/scheduler.py): the job tables           *)
(* ------------------------------------------------------------------ *)

\* The digits of s are one or two and their value is at most max.
FieldUpTo(s, max) ==
    /\ Len(s) \in {1, 2}
    /\ \A i \in 1..Len(s) : s[i] \in Digits
    /\ (IF Len(s) = 1 THEN DigitValue(s[1])
        ELSE 10 * DigitValue(s[1]) + DigitValue(s[2])) <= max

\* datetime.strptime(time_str, "%H:%M") returns: an hour of one or two
\* digits up to 23, a colon, a minute of one or two digits up to 59, and
\* nothing else.
StrptimeAccepts(s) ==
    \E k \in 2..(Len(s) - 1) :
        /\ s[k] = ":"
        /\ FieldUpTo(SubSeq(s, 1, k - 1), 23)
        /\ FieldUpTo(SubSeq(s, k + 1, Len(s)), 59)

\* schedule.every().day.at(time_str) returns: the library takes HH:MM with
\* two digits each and an hour up to 23, and raises ScheduleValueError for
\* anything else.
AtAccepts(s) == ClockShape(s) /\ InClockRange(s)

\* The state of the two job tables: schedule.jobs, self.scheduled_jobs and
\* the number of Job objects created.
Tables == [jobs |-> jobs, scheduled_jobs |-> scheduled_jobs,
           created |-> created]

\* schedule.clear(); self.scheduled_jobs.clear()
Cleared(tb) == [tb EXCEPT !.jobs = <<>>, !.scheduled_jobs = <<>>]

\* _schedule_device_action(device, action, time_str): a time that strptime
\* or the library refuses is logged and no job is made; otherwise
\* "schedule.every().day.at(time_str).do(job)" registers a job that runs
\* from its next occurrence on, and scheduled_jobs records it.
ScheduleDeviceAction(tb, device, action, time_str) ==
    IF StrptimeAccepts(time_str) /\ AtAccepts(time_str)
    THEN [jobs |-> Append(tb.jobs,
                          [id |-> tb.created + 1, device |-> device,
                           action |-> action, time |-> time_str,
                           due |-> FALSE]),
          scheduled_jobs |-> Append(tb.scheduled_jobs,
                                    [device |-> device, action |-> action,
                                     time |-> time_str,
                                     job |-> tb.created + 1]),
          created |-> tb.created + 1]
    ELSE tb

\* The (device, action, time) entries of a node, in the order
\* "for action, times in actions.items(): for time_str in times" meets them.
RECURSIVE NodeEntries(_, _, _)
NodeEntries(device, node, ks) ==
    IF ks = <<>> THEN <<>>
    ELSE [i \in 1..Len(node[Head(ks)]) |->
             [device |-> device, action |-> Head(ks),
              time |-> node[Head(ks)][i]]]
         \o NodeEntries(device, node, Tail(ks))

\* The entries of the store in the order of
\* "for device, actions in DEVICE_SCHEDULES.items()".
RECURSIVE StoreEntries(_, _)
StoreEntries(store, ks) ==
    IF ks = <<>> THEN <<>>
    ELSE NodeEntries(Head(ks), store[Head(ks)],
                     KeysIn(store[Head(ks)], ActionOrder))
         \o StoreEntries(store, Tail(ks))

\* The tables after _schedule_device_action on each entry in turn.
RECURSIVE ScheduleEach(_, _)
ScheduleEach(tb, entries) ==
    IF entries = <<>> THEN tb
    ELSE ScheduleEach(ScheduleDeviceAction(tb, Head(entries).device,
                                           Head(entries).action,
                                           Head(entries).time),
                      Tail(entries))

\* setup_schedules(): both tables cleared, then, unless scheduling is
\* disabled, one _schedule_device_action per entry of DEVICE_SCHEDULES.
SetupSchedules(tb, store) ==
    IF ~ENABLE_SCHEDULING THEN Cleared(tb)
    ELSE ScheduleEach(Cleared(tb),
                      StoreEntries(store, KeysIn(store, NameOrder)))

\* The position in scheduled_jobs of the first job_info with the triple, or
\* 0 when there is none.
FirstJobInfo(sj, device, action, time_str) ==
    IF \E i \in 1..Len(sj) : /\ sj[i].device = device /\ sj[i].action = action
                             /\ sj[i].time = time_str
    THEN CHOOSE i \in 1..Len(sj) :
            /\ sj[i].device = device /\ sj[i].action = action
            /\ sj[i].time = time_str
            /\ \A k \in 1..(i - 1) :
                  ~(/\ sj[k].device = device /\ sj[k].action = action
                    /\ sj[k].time = time_str)
    ELSE 0

\* A sequence without its element at position i.
DropAt(s, i) == SubSeq(s, 1, i - 1) \o SubSeq(s, i + 1, Len(s))

\* The loop of remove_schedule: the first matching job_info has its job
\* cancelled (schedule.cancel_job takes it out of schedule.jobs) and is
\* removed from scheduled_jobs; "break".
CancelFirst(tb, device, action, time_str) ==
    LET i == FirstJobInfo(tb.scheduled_jobs, device, action, time_str)
    IN IF i = 0 THEN tb
       ELSE [tb EXCEPT !.jobs = SelectSeq(tb.jobs,
                                 LAMBDA j : j.id # tb.scheduled_jobs[i].job),
                       !.scheduled_jobs = DropAt(tb.scheduled_jobs, i)]

(* ------------------------------------------------------------------ *)
(* Device Scheduler: its calls, its thread, the clock                  *)
(* ------------------------------------------------------------------ *)

\* Number of Job objects a behaviour may create.
MaxJobs == 3

\* Number of times the clock may reach a schedule time.
MaxTicks == 1

\* The Device Controller and bot.py's main(), which the scheduler's own
\* calls leave alone.
deviceVars == <<gpioVars, ctlVars, call, bulk, cln, stage>>

processVars == <<main, sig, sigcln>>

\* The tables become tb.
SetTables(tb) ==
    /\ jobs' = tb.jobs
    /\ scheduled_jobs' = tb.scheduled_jobs
    /\ created' = tb.created

\* The thread that calls the scheduler (the chat transport, main()) is not
\* inside a scheduler call.
CallerIdle == sched_call.pc = "idle"

\* A scheduler call that returned.
SchedReturn(op, device, action, time_str, ret) ==
    [op |-> op, device |-> device, action |-> action, time |-> time_str,
     pc |-> "idle", ret |-> ret]

\* setup_schedules()
SchedulerSetup ==
    /\ CallerIdle
    /\ SetupSchedules(Tables, DEVICE_SCHEDULES).created <= MaxJobs
    /\ SetTables(SetupSchedules(Tables, DEVICE_SCHEDULES))
    /\ sched_call' = SchedReturn("setup", "none", "none", <<>>, FALSE)
    /\ UNCHANGED <<deviceVars, shutVars, storeVars, imported,
                   ENABLE_SCHEDULING, former, worker, notified, ticks>>

\* DeviceScheduler.add_schedule(device, action, time_str): the store's
\* add_schedule, and on True the job.
SchedulerAdd(device, action, time_str) ==
    /\ CallerIdle
    /\ created < MaxJobs
    /\ ConfigAddSchedule(device, action, time_str)
    /\ SetTables(IF store_call'.ret
                 THEN ScheduleDeviceAction(Tables, device, action, time_str)
                 ELSE Tables)
    /\ sched_call' = SchedReturn("add", device, action, time_str,
                                 store_call'.ret)
    /\ UNCHANGED <<deviceVars, shutVars, imported, ENABLE_SCHEDULING, former, worker,
                   notified, ticks>>

\* DeviceScheduler.remove_schedule(device, action, time_str), its loop: the
\* job is cancelled.
SchedulerRemoveCancel(device, action, time_str) ==
    /\ CallerIdle
    /\ store_ops < MaxStoreOps
    /\ SetTables(CancelFirst(Tables, device, action, time_str))
    /\ sched_call' = [op |-> "remove", device |-> device, action |-> action,
                      time |-> time_str, pc |-> "config", ret |-> FALSE]
    /\ UNCHANGED <<deviceVars, shutVars, storeVars, imported,
                   ENABLE_SCHEDULING, former, worker, notified, ticks>>

\* "return config_remove_schedule(device, action, time_str)"
SchedulerRemoveConfig ==
    /\ sched_call.pc = "config"
    /\ ConfigRemoveSchedule(sched_call.device, sched_call.action,
                            sched_call.time)
    /\ sched_call' = [sched_call EXCEPT !.pc = "idle", !.ret = store_call'.ret]
    /\ UNCHANGED <<deviceVars, shutVars, imported, ENABLE_SCHEDULING, former,
                   scheduled_jobs, jobs, created, worker, notified, ticks>>

\* Variant: start() that starts a scheduler although scheduling is disabled.
StartSkipsOnlyRunning == running

\* "if self.running: return" and "if not ENABLE_SCHEDULING: return"
StartSkips == running \/ ~ENABLE_SCHEDULING

\* start(): nothing when running or disabled; otherwise setup_schedules(),
\* self.running = True and the thread started (a scheduler is started again
\* only when its former thread has ended).
SchedulerStart ==
    /\ CallerIdle
    /\ IF StartSkips
       THEN UNCHANGED <<running, scheduled_jobs, jobs, created, worker>>
       ELSE /\ worker.pc \in {"unstarted", "exited"}
            /\ SetupSchedules(Tables, DEVICE_SCHEDULES).created <= MaxJobs
            /\ SetTables(SetupSchedules(Tables, DEVICE_SCHEDULES))
            /\ running' = TRUE
            /\ worker' = [IdleWorker EXCEPT !.pc = "loop"]
    /\ sched_call' = SchedReturn("start", "none", "none", <<>>, FALSE)
    /\ UNCHANGED <<deviceVars, processVars, storeVars, imported,
                   ENABLE_SCHEDULING, former, notified, ticks>>

\* stop() up to its wait: nothing when not running; otherwise
\* self.running = False and "self.scheduler_thread.join(timeout=5)".
SchedulerStop ==
    /\ CallerIdle
    /\ IF ~running
       THEN /\ sched_call' = SchedReturn("stop", "none", "none", <<>>, FALSE)
            /\ UNCHANGED running
       ELSE /\ running' = FALSE
            /\ sched_call' = [op |-> "stop", device |-> "none",
                              action |-> "none", time |-> <<>>,
                              pc |-> "join", ret |-> FALSE]
    /\ UNCHANGED <<deviceVars, processVars, storeVars, imported,
                   ENABLE_SCHEDULING, former, scheduled_jobs, jobs, created,
                   worker,
                   notified, ticks>>

\* The scheduler thread is inside schedule.run_pending().
InTick == worker.pc \in {"batch", "job", "notify"}

\* Variant: stop() that returns without clearing the tables.
StopClearsNothing(tb) == tb

\* "schedule.clear(); self.scheduled_jobs.clear()" of stop()
StopClears(tb) == Cleared(tb)

\* The join returns, the thread having ended or the five seconds having
\* passed with the thread still inside run_pending(); stop() clears the
\* tables and returns.
SchedulerStopJoin ==
    /\ sched_call.pc = "join"
    /\ worker.pc = "exited" \/ InTick
    /\ SetTables(StopClears(Tables))
    /\ sched_call' = [sched_call EXCEPT !.pc = "idle"]
    /\ UNCHANGED <<deviceVars, shutVars, storeVars, imported,
                   ENABLE_SCHEDULING, former, worker, notified, ticks>>

\* The jobs of the table that should run, in the order sorted() gives them.
DueJobs(js) == SelectSeq(js, LAMBDA j : j.due)

\* The table with job id rescheduled for the next day (a job that is not
\* in the table any more reschedules itself to no effect).
Rescheduled(js, id) ==
    [i \in 1..Len(js) |-> IF js[i].id = id THEN [js[i] EXCEPT !.due = FALSE]
                          ELSE js[i]]

\* The job that run_pending() is running or about to run.
CurrentJob == worker.batch[worker.idx]

\* "while self.running:" and, inside, schedule.run_pending() collecting the
\* jobs to run; the thread ends when the flag is down.
WorkerLoop ==
    /\ worker.pc = "loop"
    /\ worker' = IF running
                 THEN [worker EXCEPT !.pc = "batch", !.batch = DueJobs(jobs),
                                     !.idx = 1]
                 ELSE [worker EXCEPT !.pc = "exited", !.batch = <<>>,
                                     !.idx = 0]
    /\ UNCHANGED <<deviceVars, shutVars, storeVars, imported,
                   ENABLE_SCHEDULING, former, scheduled_jobs, jobs, created, notified,
                   sched_call, ticks>>

\* run_pending() calls the next job: job() calls gpio_handler.turn_on or
\* turn_off for its device, without a timeout. An unregistered device makes
\* the controller return False at once.
JobBegin ==
    /\ worker.pc = "batch" /\ worker.idx <= Len(worker.batch)
    /\ IF KnownDevice(CurrentJob.device)
       THEN /\ Invoke(WorkerThread, CurrentJob.action, CurrentJob.device, FALSE)
            /\ worker' = [worker EXCEPT !.pc = "job"]
       ELSE /\ worker' = [worker EXCEPT !.pc = "notify", !.success = FALSE]
            /\ UNCHANGED <<gpioVars, ctlVars, call, bulk, cln>>
    /\ UNCHANGED <<stage, shutVars, storeVars, imported, ENABLE_SCHEDULING, former,
                   scheduled_jobs, jobs, created, notified, sched_call, ticks>>

\* The job's call writes the pin. An exception of the driver leaves job()
\* and run_pending(); _run_scheduler logs it and loops.
JobOutput ==
    /\ worker.pc = "job"
    /\ Output(WorkerThread)
    /\ worker' = IF OutputRaises(DEVICE_TO_PIN[call[WorkerThread].dev])
                 THEN [worker EXCEPT !.pc = "loop"]
                 ELSE worker
    /\ UNCHANGED <<stage, shutVars, storeVars, imported, ENABLE_SCHEDULING, former,
                   scheduled_jobs, jobs, created, notified, sched_call, ticks>>

\* The job's call returns True: "success = gpio_handler.turn_on(device)".
JobComplete ==
    /\ worker.pc = "job"
    /\ call[WorkerThread].pc = "status"
    /\ Complete(WorkerThread)
    /\ worker' = [worker EXCEPT !.pc = "notify", !.success = TRUE]
    /\ UNCHANGED <<stage, shutVars, storeVars, imported, ENABLE_SCHEDULING, former,
                   scheduled_jobs, jobs, created, notified, sched_call, ticks>>

\* How a call of _send_discord_notification can end: the message is handed
\* to the bot's channel; there is no bot or no channel (a warning); an
\* exception on the way, which is logged and not raised.
SinkOutcomes == {"sent", "no bot", "error"}

\* Variant: a notification that always reports a success.
NotificationAlwaysTrue(j, success, outcome) ==
    [device |-> j.device, action |-> j.action, success |-> TRUE,
     outcome |-> outcome]

\* What _send_discord_notification(device, action, success) was called
\* with, and how it ended.
Notification(j, success, outcome) ==
    [device |-> j.device, action |-> j.action, success |-> success,
     outcome |-> outcome]

\* Variant: an exception inside the notification leaves job() and
\* run_pending().
AfterNotificationRaising(w, outcome) ==
    IF outcome = "error" THEN [w EXCEPT !.pc = "loop"]
    ELSE [w EXCEPT !.pc = "batch", !.idx = @ + 1]

\* The thread after _send_discord_notification returned, whatever happened
\* in it ("except Exception" at its end): job() returns and run_pending()
\* goes on with the next job.
AfterNotification(w, outcome) == [w EXCEPT !.pc = "batch", !.idx = @ + 1]

\* job() notifies and returns; the library reschedules the job, and
\* run_pending() goes on with the rest.
JobNotify(outcome) ==
    /\ worker.pc = "notify"
    /\ notified' = Append(notified,
                          Notification(CurrentJob, worker.success, outcome))
    /\ jobs' = Rescheduled(jobs, CurrentJob.id)
    /\ worker' = AfterNotification(worker, outcome)
    /\ UNCHANGED <<deviceVars, shutVars, storeVars, imported,
                   ENABLE_SCHEDULING, former, scheduled_jobs, created, sched_call,
                   ticks>>

\* run_pending() returned: "time.sleep(1)", then the loop condition.
WorkerSleep ==
    /\ worker.pc = "batch" /\ worker.idx > Len(worker.batch)
    /\ worker' = [worker EXCEPT !.pc = "loop"]
    /\ UNCHANGED <<deviceVars, shutVars, storeVars, imported,
                   ENABLE_SCHEDULING, former, scheduled_jobs, jobs, created, notified,
                   sched_call, ticks>>

\* The wall clock reaches the time of some jobs: they should run (jobs that
\* were due earlier have run by then).
ClockReaches(time_str) ==
    /\ ticks < MaxTicks
    /\ \A i \in 1..Len(jobs) : ~jobs[i].due
    /\ \E i \in 1..Len(jobs) : jobs[i].time = time_str
    /\ jobs' = [i \in 1..Len(jobs) |->
                   IF jobs[i].time = time_str THEN [jobs[i] EXCEPT !.due = TRUE]
                   ELSE jobs[i]]
    /\ ticks' = ticks + 1
    /\ UNCHANGED <<deviceVars, shutVars, storeVars, imported,
                   ENABLE_SCHEDULING, former, scheduled_jobs, created, worker,
                   notified, sched_call>>

\* The argument triples of add_schedule and remove_schedule: two that fall
\* in the same minute, an hour out of range, a one-digit hour.
SchedInputs ==
    { [device |-> "pump", action |-> "on", time |-> T0800],
      [device |-> "light", action |-> "off", time |-> T0800],
      [device |-> "pump", action |-> "on", time |-> T2500],
      [device |-> "pump", action |-> "on", time |-> T800] }

\* What a process starts with: no schedule, or a file that an earlier
\* process saved when a device now gone was registered.
SchedFileChoices ==
    { NoFile,
      [exists |-> TRUE, decodes |-> TRUE, valid |-> TRUE,
       text |-> JsonDump(WithList(WithList(EmptyDict, "pump", "on", <<T0800>>),
                                  "unknown", "off", <<T0800>>))] }

\* ... and no declaration, or one that gives a time twice.
SchedEnvChoices ==
    { <<>>,
      <<[device |-> "pump", action |-> "on", value |-> <<T0800, T0800>>]>> }

\* The process after its imports: the store loaded, the scheduler
\* constructed and not started.
InitScheduler ==
    /\ DevicesReady
    /\ backend = "emulation"
    /\ running = FALSE
    /\ main = "serving" /\ sig = "none" /\ sigcln = IdleCleanup
    /\ environ \in SchedEnvChoices
    /\ schedule_file \in SchedFileChoices
    /\ writable \in BOOLEAN
    /\ DEVICE_SCHEDULES = LoadSchedules(EmptyDict, schedule_file, environ)
    /\ store_call = NoStoreCall
    /\ store_ops = 0
    /\ imported = "yes"
    /\ ENABLE_SCHEDULING \in BOOLEAN
    /\ scheduled_jobs = <<>>
    /\ jobs = <<>>
    /\ created = 0
    /\ worker = IdleWorker
    /\ former = IdleWorker
    /\ notified = <<>>
    /\ sched_call = NoSchedCall
    /\ ticks = 0

\* The calls of the scheduler's interface, and its thread polling.
NextScheduler ==
    \/ SchedulerSetup
    \/ \E i \in SchedInputs : SchedulerAdd(i.device, i.action, i.time)
    \/ \E i \in SchedInputs : SchedulerRemoveCancel(i.device, i.action, i.time)
    \/ SchedulerRemoveConfig
    \/ SchedulerStart
    \/ SchedulerStop
    \/ SchedulerStopJoin
    \/ WorkerLoop
    \/ WorkerSleep

\* The Device Scheduler under the calls of its interface while no job is
\* due.
SpecScheduler == InitScheduler /\ [][NextScheduler]_vars

(* ------------------------------------------------------------------ *)
(* Device Scheduler: jobs firing                                       *)
(* ------------------------------------------------------------------ *)

\* Schedule files of a process whose jobs fire: two entries of the same
\* minute, with a device that is not registered any more, or on two
\* devices.
FiringFileChoices ==
    { [exists |-> TRUE, decodes |-> TRUE, valid |-> TRUE,
       text |-> JsonDump(WithList(WithList(EmptyDict, "pump", "on", <<T0800>>),
                                  "unknown", "off", <<T0800>>))],
      [exists |-> TRUE, decodes |-> TRUE, valid |-> TRUE,
       text |-> JsonDump(WithList(WithList(EmptyDict, "pump", "off", <<T0800>>),
                                  "light", "on", <<T0800>>))] }

\* The process after main() called scheduler.start_scheduler(): the store
\* loaded from the file, the jobs set up, the thread at its loop.
InitFiring ==
    /\ DevicesReady
    /\ backend = "emulation"
    /\ running = TRUE
    /\ main = "serving" /\ sig = "none" /\ sigcln = IdleCleanup
    /\ environ = <<>>
    /\ schedule_file \in FiringFileChoices
    /\ writable = TRUE
    /\ DEVICE_SCHEDULES = LoadSchedules(EmptyDict, schedule_file, environ)
    /\ store_call = NoStoreCall
    /\ store_ops = 0
    /\ imported = "yes"
    /\ ENABLE_SCHEDULING = TRUE
    /\ LET tb == ScheduleEach([jobs |-> <<>>, scheduled_jobs |-> <<>>,
                               created |-> 0],
                              StoreEntries(DEVICE_SCHEDULES,
                                           KeysIn(DEVICE_SCHEDULES, NameOrder)))
       IN /\ jobs = tb.jobs
          /\ scheduled_jobs = tb.scheduled_jobs
          /\ created = tb.created
    /\ worker = [IdleWorker EXCEPT !.pc = "loop"]
    /\ former = IdleWorker
    /\ notified = <<>>
    /\ sched_call = SchedReturn("start", "none", "none", <<>>, FALSE)
    /\ ticks = 0

\* A command of the chat transport that installs an auto-toggle timer on
\* the pump: "off for a while, then on again".
FiringCommand == Call(ChatThread, "off", "pump", TRUE)

\* The threads other than the scheduler's: the chat thread and the timers.
OtherThreads == Threads \ {WorkerThread}

NextFiring ==
    \/ \E t \in {T0800} : ClockReaches(t)
    \/ WorkerLoop
    \/ JobBegin
    \/ JobOutput
    \/ JobComplete
    \/ \E o \in SinkOutcomes : JobNotify(o)
    \/ WorkerSleep
    \/ SchedulerStop
    \/ SchedulerStopJoin
    \/ FiringCommand
    \/ \E n \in TimerIds : TimerExpire(n)
    \/ \E n \in TimerIds : TimerEnter(n)
    \/ \E t \in OtherThreads : WritePin(t)
    \/ \E t \in OtherThreads : Finish(t)

\* The scheduler thread and stop() alone: no command, no timer.
NextStopping ==
    \/ \E t \in {T0800} : ClockReaches(t)
    \/ WorkerLoop
    \/ JobBegin
    \/ JobOutput
    \/ JobComplete
    \/ \E o \in SinkOutcomes : JobNotify(o)
    \/ WorkerSleep
    \/ SchedulerStop
    \/ SchedulerStopJoin

\* The started scheduler up to and after a stop(). The thread is alive, so
\* its loop goes on; join(timeout=5) returns when the thread has ended or
\* the five seconds are over.
SpecStopping ==
    /\ InitFiring
    /\ [][NextStopping]_vars
    /\ WF_vars(WorkerLoop)
    /\ WF_vars(WorkerSleep)
    /\ WF_vars(SchedulerStopJoin)

\* The started scheduler: the clock makes jobs due, the thread fires them,
\* commands and timers use the controller, and stop() may be called.
SpecFiring == InitFiring /\ [][NextFiring]_vars

(* ------------------------------------------------------------------ *)
(* Device Scheduler: started again after a stop()                      *)
(* ------------------------------------------------------------------ *)

\* A thread of _run_scheduler that has not returned.
ThreadAlive(w) == w.pc \notin {"unstarted", "exited"}

\* The calls in progress once the scheduler's thread is no longer
\* self.scheduler_thread: what it was doing, it goes on doing.
Orphaned(f) ==
    [t \in Threads |-> IF t = FormerThread THEN f[WorkerThread]
                       ELSE IF t = WorkerThread THEN IdleCall
                       ELSE f[t]]

\* start() after a stop() whose join(timeout=5) returned with the thread
\* still alive: setup_schedules(), self.running = True, and
\* "self.scheduler_thread = threading.Thread(...)" replaces the handle of
\* the thread, which is not told anything.
SchedulerRestart ==
    /\ CallerIdle
    /\ ~StartSkips
    /\ ThreadAlive(worker) /\ ~ThreadAlive(former)
    /\ SetupSchedules(Tables, DEVICE_SCHEDULES).created <= MaxJobs
    /\ SetTables(SetupSchedules(Tables, DEVICE_SCHEDULES))
    /\ running' = TRUE
    /\ former' = worker
    /\ worker' = [IdleWorker EXCEPT !.pc = "loop"]
    /\ call' = Orphaned(call)
    /\ gpio_lock' = IF gpio_lock = WorkerThread THEN FormerThread
                    ELSE gpio_lock
    /\ sched_call' = SchedReturn("start", "none", "none", <<>>, FALSE)
    /\ UNCHANGED <<gpioVars, device_status, device_timers, timers, bulk, cln,
                   stage, processVars, storeVars, imported, ENABLE_SCHEDULING,
                   notified, ticks>>

\* The job that the replaced thread is running or about to run.
FormerJob == former.batch[former.idx]

\* "while self.running:" in the replaced thread: the flag it reads is the
\* one the new start() set.
FormerLoop ==
    /\ former.pc = "loop"
    /\ former' = IF running
                 THEN [former EXCEPT !.pc = "batch", !.batch = DueJobs(jobs),
                                     !.idx = 1]
                 ELSE [former EXCEPT !.pc = "exited", !.batch = <<>>,
                                     !.idx = 0]
    /\ UNCHANGED <<deviceVars, shutVars, storeVars, imported,
                   ENABLE_SCHEDULING, scheduled_jobs, jobs, created, worker,
                   notified, sched_call, ticks>>

\* run_pending() of the replaced thread calls its next job.
FormerJobBegin ==
    /\ former.pc = "batch" /\ former.idx <= Len(former.batch)
    /\ IF KnownDevice(FormerJob.device)
       THEN /\ Resting(FormerThread)
            /\ LockAndCancel(FormerThread, FormerJob.action, FormerJob.device,
                             FALSE)
            /\ former' = [former EXCEPT !.pc = "job"]
            /\ UNCHANGED <<gpioVars, device_status, bulk, cln>>
       ELSE /\ former' = [former EXCEPT !.pc = "notify", !.success = FALSE]
            /\ UNCHANGED <<gpioVars, ctlVars, call, bulk, cln>>
    /\ UNCHANGED <<stage, shutVars, storeVars, imported, ENABLE_SCHEDULING,
                   scheduled_jobs, jobs, created, worker, notified, sched_call,
                   ticks>>

\* The job's call in the replaced thread writes the pin.
FormerJobOutput ==
    /\ former.pc = "job"
    /\ Output(FormerThread)
    /\ former' = IF OutputRaises(DEVICE_TO_PIN[call[FormerThread].dev])
                 THEN [former EXCEPT !.pc = "loop"]
                 ELSE former
    /\ UNCHANGED <<stage, shutVars, storeVars, imported, ENABLE_SCHEDULING,
                   scheduled_jobs, jobs, created, worker, notified, sched_call,
                   ticks>>

\* The job's call in the replaced thread returns True.
FormerJobComplete ==
    /\ former.pc = "job"
    /\ call[FormerThread].pc = "status"
    /\ Complete(FormerThread)
    /\ former' = [former EXCEPT !.pc = "notify", !.success = TRUE]
    /\ UNCHANGED <<stage, shutVars, storeVars, imported, ENABLE_SCHEDULING,
                   scheduled_jobs, jobs, created, worker, notified, sched_call,
                   ticks>>

\* job() of the replaced thread notifies and returns.
FormerJobNotify(outcome) ==
    /\ former.pc = "notify"
    /\ notified' = Append(notified,
                          Notification(FormerJob, former.success, outcome))
    /\ jobs' = Rescheduled(jobs, FormerJob.id)
    /\ former' = AfterNotification(former, outcome)
    /\ UNCHANGED <<deviceVars, shutVars, storeVars, imported,
                   ENABLE_SCHEDULING, scheduled_jobs, created, worker,
                   sched_call, ticks>>

\* run_pending() of the replaced thread returned: "time.sleep(1)".
FormerSleep ==
    /\ former.pc = "batch" /\ former.idx > Len(former.batch)
    /\ former' = [former EXCEPT !.pc = "loop"]
    /\ UNCHANGED <<deviceVars, shutVars, storeVars, imported,
                   ENABLE_SCHEDULING, scheduled_jobs, jobs, created, worker,
                   notified, sched_call, ticks>>

\* The schedule file of a process with one job.
RestartFile ==
    [exists |-> TRUE, decodes |-> TRUE, valid |-> TRUE,
     text |-> JsonDump(WithList(EmptyDict, "pump", "on", <<T0800>>))]

\* The process after main() called scheduler.start_scheduler(), with the
\* one job of its schedule file set up and the thread at its loop.
InitRestart ==
    /\ DevicesReady
    /\ backend = "emulation"
    /\ running = TRUE
    /\ main = "serving" /\ sig = "none" /\ sigcln = IdleCleanup
    /\ environ = <<>>
    /\ schedule_file = RestartFile
    /\ writable = TRUE
    /\ DEVICE_SCHEDULES = LoadSchedules(EmptyDict, schedule_file, environ)
    /\ store_call = NoStoreCall
    /\ store_ops = 0
    /\ imported = "yes"
    /\ ENABLE_SCHEDULING = TRUE
    /\ LET tb == ScheduleEach([jobs |-> <<>>, scheduled_jobs |-> <<>>,
                               created |-> 0],
                              StoreEntries(DEVICE_SCHEDULES,
                                           KeysIn(DEVICE_SCHEDULES, NameOrder)))
       IN /\ jobs = tb.jobs
          /\ scheduled_jobs = tb.scheduled_jobs
          /\ created = tb.created
    /\ worker = [IdleWorker EXCEPT !.pc = "loop"]
    /\ former = IdleWorker
    /\ notified = <<>>
    /\ sched_call = SchedReturn("start", "none", "none", <<>>, FALSE)
    /\ ticks = 0

\* The scheduler's threads, the clock, and the calls start(), stop() and
\* remove_schedule() of the chat transport and of main().
NextRestart ==
    \/ \E t \in {T0800} : ClockReaches(t)
    \/ WorkerLoop
    \/ JobBegin
    \/ JobOutput
    \/ JobComplete
    \/ \E o \in SinkOutcomes : JobNotify(o)
    \/ WorkerSleep
    \/ FormerLoop
    \/ FormerJobBegin
    \/ FormerJobOutput
    \/ FormerJobComplete
    \/ \E o \in SinkOutcomes : FormerJobNotify(o)
    \/ FormerSleep
    \/ SchedulerStart
    \/ SchedulerRestart
    \/ SchedulerStop
    \/ SchedulerStopJoin
    \/ SchedulerRemoveCancel("pump", "on", T0800)
    \/ SchedulerRemoveConfig

\* The scheduler stopped and started again while its jobs come due. Every
\* thread that is alive takes its steps, and join(timeout=5) returns.
SpecRestart ==
    /\ InitRestart
    /\ [][NextRestart]_vars
    /\ WF_vars(WorkerLoop)
    /\ WF_vars(JobBegin)
    /\ WF_vars(JobOutput)
    /\ WF_vars(JobComplete)
    /\ WF_vars(\E o \in SinkOutcomes : JobNotify(o))
    /\ WF_vars(WorkerSleep)
    /\ WF_vars(FormerLoop)
    /\ WF_vars(FormerJobBegin)
    /\ WF_vars(FormerJobOutput)
    /\ WF_vars(FormerJobComplete)
    /\ WF_vars(\E o \in SinkOutcomes : FormerJobNotify(o))
    /\ WF_vars(FormerSleep)
    /\ WF_vars(SchedulerStopJoin)

(* ------------------------------------------------------------------ *)
(* Device Scheduler: get_next_runs                                     *)
(* ------------------------------------------------------------------ *)

\* The calendar days a next run can fall on: today and tomorrow, here the
\* last day of a year and the first of the next.
Days == <<[year |-> 2026, month |-> 12, day |-> 31],
          [year |-> 2027, month |-> 1, day |-> 1]>>

\* The character of a digit.
DigitChar(n) == <<"0", "1", "2", "3", "4", "5", "6", "7", "8", "9">>[n + 1]

\* Variant: a number written without a leading zero.
Pad2Bare(n) ==
    IF n < 10 THEN <<DigitChar(n)>>
    ELSE <<DigitChar(n \div 10), DigitChar(n % 10)>>

\* "%m", "%d", "%H", "%M", "%S" of strftime: two digits.
Pad2(n) == <<DigitChar(n \div 10), DigitChar(n % 10)>>

\* "%Y" of strftime for a year of four digits.
Pad4(n) == Pad2(n \div 100) \o Pad2(n % 100)

\* next_run.strftime("%Y-%m-%d %H:%M:%S") for a next run on day number
\* day at hour:minute (a daily job runs at second 0).
Strftime(nr) ==
    Pad4(Days[nr.day].year) \o <<"-">> \o Pad2(Days[nr.day].month)
    \o <<"-">> \o Pad2(Days[nr.day].day) \o <<" ">> \o Pad2(nr.hour)
    \o <<":">> \o Pad2(nr.minute) \o <<":">> \o Pad2(0)

\* The Job object that a job_info refers to.
JobOf(js, id) == js[CHOOSE k \in 1..Len(js) : js[k].id = id]

\* The dict that get_next_runs() appends for a job_info.
RunEntry(info, js) ==
    [device |-> info.device, action |-> info.action, time |-> info.time,
     next_run |-> Strftime(JobOf(js, info.job).next_run)]

\* The loop of get_next_runs() over scheduled_jobs: an entry for each job
\* whose next_run is set (the library sets it when the job is registered).
RECURSIVE CollectRuns(_, _)
CollectRuns(sj, js) ==
    IF sj = <<>> THEN <<>>
    ELSE (IF JobOf(js, Head(sj).job).next_run.day # 0
          THEN <<RunEntry(Head(sj), js)>> ELSE <<>>)
         \o CollectRuns(Tail(sj), js)

\* list.sort(key=...) is stable: x goes before the first entry whose key is
\* not smaller.
RECURSIVE InsertRun(_, _)
InsertRun(x, list) ==
    IF list = <<>> THEN <<x>>
    ELSE IF ~StrLess(Head(list).next_run, x.next_run) THEN <<x>> \o list
    ELSE <<Head(list)>> \o InsertRun(x, Tail(list))

\* next_runs.sort(key=lambda x: x["next_run"])
RECURSIVE SortRuns(_)
SortRuns(list) ==
    IF list = <<>> THEN <<>>
    ELSE InsertRun(Head(list), SortRuns(Tail(list)))

\* get_next_runs()
GetNextRuns ==
    /\ CallerIdle
    /\ sched_call.op # "next_runs"
    /\ sched_call' = [op |-> "next_runs", device |-> "none",
                      action |-> "none", time |-> <<>>, pc |-> "idle",
                      ret |-> SortRuns(CollectRuns(scheduled_jobs, jobs))]
    /\ UNCHANGED <<deviceVars, shutVars, storeVars, imported,
                   ENABLE_SCHEDULING, former, scheduled_jobs, jobs, created,
                   worker,
                   notified, ticks>>

\* The jobs a table can hold when get_next_runs() is called: each runs next
\* at its time, today or tomorrow.
RunChoices ==
    { [device |-> i.device, action |-> i.action, time |-> i.time, day |-> d] :
        i \in { [device |-> "pump", action |-> "on", time |-> T0800],
                [device |-> "light", action |-> "off", time |-> T0800],
                [device |-> "pump", action |-> "off", time |-> T2000] },
        d \in 1..Len(Days) }

\* The minutes from the start of today to a next run.
Stamp(nr) == nr.day * 1440 + nr.hour * 60 + nr.minute

\* The tables of a scheduler whose jobs, registered in the order of seq,
\* wait for their next runs; the next runs lie within one day of each other.
InitNextRuns ==
    /\ DevicesReady
    /\ backend = "emulation"
    /\ running = TRUE
    /\ main = "serving" /\ sig = "none" /\ sigcln = IdleCleanup
    /\ StoreUnused
    /\ imported = "yes"
    /\ ENABLE_SCHEDULING = TRUE
    /\ \E n \in 0..MaxJobs : \E seq \in [1..n -> RunChoices] :
          /\ jobs = [i \in 1..n |->
                        [id |-> i, device |-> seq[i].device,
                         action |-> seq[i].action, time |-> seq[i].time,
                         due |-> FALSE,
                         next_run |-> [day |-> seq[i].day,
                                       hour |-> HourOf(seq[i].time),
                                       minute |-> MinuteOf(seq[i].time)]]]
          /\ scheduled_jobs = [i \in 1..n |->
                                  [device |-> seq[i].device,
                                   action |-> seq[i].action,
                                   time |-> seq[i].time, job |-> i]]
          /\ created = n
          /\ \A i, k \in 1..n :
                Stamp(jobs[i].next_run) - Stamp(jobs[k].next_run) <= 1440
    /\ worker = [IdleWorker EXCEPT !.pc = "loop"]
    /\ former = IdleWorker
    /\ notified = <<>>
    /\ sched_call = SchedReturn("start", "none", "none", <<>>, FALSE)
    /\ ticks = 0

NextNextRuns == GetNextRuns

\* get_next_runs() on the tables of a running scheduler.
SpecNextRuns == InitNextRuns /\ [][NextNextRuns]_vars

(* ------------------------------------------------------------------ *)
(* Properties                                                          *)
(* ------------------------------------------------------------------ *)

\* Thread t enters the locked body of turn_on/turn_off in this step.
Entering(t) == call[t].pc # "output" /\ call'[t].pc = "output"

\* Thread t leaves the locked body by "return True" in this step.
Finishing(t) == call[t].pc = "status" /\ call'[t].pc # "status"

\* The timers of device d that are started, not cancelled and not fired.
Pending(d) == {n \in TimerIds : timers[n].state = "waiting" /\ timers[n].device = d}

\* C1: under every interleaving of turn_on/turn_off commands, timer
\* callbacks and scheduled jobs, whenever the controller lock is free the
\* recorded status of every registered device equals the level last written
\* to its pin (status true iff pin HIGH).
C1_StatusMatchesPinWhenLockFree ==
    gpio_lock = None =>
        \A d \in Devices : /\ PinWritten(DEVICE_TO_PIN[d])
                           /\ device_status[d] = pin_states[DEVICE_TO_PIN[d]]

\* The lock is free, a device is on, one timer callback has run to its end
\* and another has fired and waits for the lock.
C1_Witness ==
    /\ gpio_lock = None
    /\ \E d \in Devices : device_status[d]
    /\ \E n, m \in TimerIds : timers[n].state = "done" /\ timers[m].state = "fired"

C3_TimedTurnOn ==
    [][/\ \A t \in Callers :
            (Finishing(t) /\ call[t].op = "on" /\ call[t].tmo)
            => LET d == call[t].dev
                   n == device_timers'[d]
               IN /\ device_status'[d]
                  /\ DEVICE_TO_PIN[d] \in DOMAIN pin_states'
                  /\ pin_states'[DEVICE_TO_PIN[d]]
                  /\ n # None
                  /\ timers'[n] = [state |-> "waiting", device |-> d,
                                   action |-> "off", old |-> FALSE]
                  /\ call'[t].pc \in {"done", "next"}
                  /\ call'[t].pc = "done" => call'[t].ret
       /\ \A n \in TimerIds :
            (timers[n].state = "waiting" /\ timers[n].action = "off")
            => \/ timers'[n] = timers[n]
               \/ /\ timers'[n] = [timers[n] EXCEPT !.state = "fired"]
                  /\ call'[n].pc = "acquire" /\ call'[n].op = "off"
                  /\ call'[n].dev = timers[n].device
               \/ \E t \in Threads : Entering(t) /\ call'[t].dev = timers[n].device
       /\ \A n \in TimerIds :
            (Finishing(n) /\ call[n].op = "off")
            => LET d == call[n].dev
               IN /\ ~device_status'[d]
                  /\ pin_states'[DEVICE_TO_PIN[d]] = FALSE
                  /\ device_timers'[d] = None
                  /\ timers'[n].state = "done"
      ]_vars

\* The chat thread got True from its call while the auto-off callback of a
\* timer has written the pin LOW and is about to record the status.
C3_Witness ==
    /\ call[ChatThread].pc = "done" /\ call[ChatThread].ret
    /\ \E n \in TimerIds :
          /\ timers[n].state = "fired" /\ timers[n].action = "off"
          /\ call[n].pc = "status"
          /\ device_status[call[n].dev]
          /\ pin_states[DEVICE_TO_PIN[call[n].dev]] = FALSE

\* C4: once the commands turn_on(d), turn_on(d, timeout), turn_off(d) have
\* been executed in this order, and for as long as no further command is
\* issued for d, status[d] is false, the pin is LOW, no timer handle is
\* recorded and no timer of d is pending: no timer turns d on or off again.
C4_ScenarioEndsOff ==
    \A d \in Devices :
        (stage[d] = Len(Script) /\ Resting(ChatThread))
        => /\ ~device_status[d]
           /\ pin_states[DEVICE_TO_PIN[d]] = FALSE
           /\ device_timers[d] = None
           /\ Pending(d) = {}

\* The scenario is over and the timer that turn_on(d, timeout) installed
\* was cancelled by turn_off(d).
C4_Witness ==
    \E d \in Devices :
        /\ stage[d] = Len(Script) /\ Resting(ChatThread)
        /\ \E n \in TimerIds : timers[n].state = "cancelled"

\* C5: a turn_on/turn_off with a device name that is not registered returns
\* False in a step that changes neither the driver, nor a status, nor a
\* timer, nor the lock; and no thread is ever inside the locked body (where
\* the pin is written) with an unregistered device.
C5_UnknownDeviceRejected ==
    /\ [](\A t \in Threads :
            call[t].pc \in {"acquire", "output", "status"}
            => call[t].dev \in Devices)
    /\ [][\A t \in Callers :
            (call'[t] # call[t] /\ call'[t].dev \notin Devices \cup {"none"})
            => /\ call'[t].pc = "done" /\ call'[t].ret = FALSE
               /\ UNCHANGED <<gpioVars, ctlVars>>
         ]_vars

\* The chat thread got False for an unknown device while a device is on and
\* its timer is pending.
C5_Witness ==
    /\ call[ChatThread].pc = "done" /\ call[ChatThread].dev = "unknown"
    /\ ~call[ChatThread].ret
    /\ \E d \in Devices : device_status[d] /\ Pending(d) # {}

\* C6: turn_off(d, timeout) returns True with status[d] false, the pin LOW
\* and a waiting timer for turn_on(d) recorded; that timer stays waiting
\* until it fires or another call enters for d; and when its callback
\* completes, status[d] is true, the pin HIGH and no timer of d is pending.
C6_TimedTurnOff ==
    [][/\ \A t \in Callers :
            (Finishing(t) /\ call[t].op = "off" /\ call[t].tmo)
            => LET d == call[t].dev
                   n == device_timers'[d]
               IN /\ ~device_status'[d]
                  /\ DEVICE_TO_PIN[d] \in DOMAIN pin_states'
                  /\ pin_states'[DEVICE_TO_PIN[d]] = FALSE
                  /\ n # None
                  /\ timers'[n] = [state |-> "waiting", device |-> d,
                                   action |-> "on", old |-> FALSE]
                  /\ call'[t].pc \in {"done", "next"}
                  /\ call'[t].pc = "done" => call'[t].ret
       /\ \A n \in TimerIds :
            (timers[n].state = "waiting" /\ timers[n].action = "on")
            => \/ timers'[n] = timers[n]
               \/ /\ timers'[n] = [timers[n] EXCEPT !.state = "fired"]
                  /\ call'[n].pc = "acquire" /\ call'[n].op = "on"
                  /\ call'[n].dev = timers[n].device
               \/ \E t \in Threads : Entering(t) /\ call'[t].dev = timers[n].device
       /\ \A n \in TimerIds :
            (Finishing(n) /\ call[n].op = "on")
            => LET d == call[n].dev
               IN /\ device_status'[d]
                  /\ pin_states'[DEVICE_TO_PIN[d]]
                  /\ device_timers'[d] = None
                  /\ \A m \in TimerIds :
                        ~(timers'[m].state = "waiting" /\ timers'[m].device = d)
                  /\ timers'[n].state = "done"
      ]_vars

\* The auto-on callback of a timer has written the pin HIGH and is about to
\* record the status of a device that is off.
C6_Witness ==
    \E n \in TimerIds :
        /\ timers[n].state = "fired" /\ timers[n].action = "on"
        /\ call[n].pc = "status"
        /\ ~device_status[call[n].dev]
        /\ pin_states[DEVICE_TO_PIN[call[n].dev]]

\* C7: in every state each device has at most one timer that is started,
\* not cancelled and not yet fired, and it is the one whose handle the
\* controller holds for the device.
C7_AtMostOnePendingTimer ==
    \A d \in Devices :
        /\ Cardinality(Pending(d)) <= 1
        /\ \A n \in Pending(d) : device_timers[d] = n

\* A command with a timeout has cancelled the pending timer of its device
\* and is about to install a new one.
C7_Witness ==
    \E t \in Callers :
        /\ call[t].pc = "status" /\ call[t].tmo
        /\ call[t].timer # None
        /\ timers[call[t].timer].state = "cancelled"
        /\ Pending(call[t].dev) = {}

\* Some pin is driven to a level it did not have (a write by output()).
PinLevelSet ==
    \E p \in Pins :
        /\ p \in DOMAIN pin_states'
        /\ p \in DOMAIN pin_states => pin_states'[p] # pin_states[p]

\* C8: every step that changes a device's status, its timer handle or the
\* level of a pin is taken by a thread that holds the controller's lock
\* (it holds it before the step or acquires it in the step).
C8_MutationsUnderLock ==
    [][(\/ device_status' # device_status
        \/ device_timers' # device_timers
        \/ PinLevelSet)
       => \E t \in Threads : /\ gpio_lock = t \/ gpio_lock' = t
                             /\ call'[t] # call[t]
      ]_vars

\* C9: a bulk operation ends only by returning, after it has applied its
\* operation to every registered device; it returns the conjunction of the
\* individual results; and when it returns True and nothing else touched
\* the statuses meanwhile, every device has the status of the operation.
C9_BulkAppliesToAll ==
    [][(bulk.kind # "none" /\ bulk'.kind = "none")
       => /\ call'[ChatThread].pc = "done"
          /\ bulk.visited \cup {call[ChatThread].dev} = Devices
          /\ call'[ChatThread].ret = bulk.success
          /\ (call'[ChatThread].ret /\ bulk.alone)
             => \A d \in Devices : device_status'[d] = Level(BulkOp(bulk.kind))
      ]_vars

\* C10: when cleanup() returns no timer is pending, every status is false
\* and the driver is released; and no step of a timer that existed when
\* cleanup() returned changes a status or the pins.
C10_CleanupIsFinal ==
    [][/\ (cln = "gpio" /\ cln' = "idle")
          => /\ \A n \in TimerIds : timers'[n].state # "waiting"
             /\ \A d \in Devices : ~device_status'[d]
             /\ released'
       /\ \A n \in TimerIds :
            (timers[n].old /\ call'[n] # call[n])
            => /\ device_status' = device_status
               /\ pin_states' = pin_states
      ]_vars

\* A cleanup() step is taken at position pos, by main() or by the handler.
CleanupStepAt(pos) ==
    \/ cln = pos /\ cln' # cln
    \/ sigcln = pos /\ sigcln' # sigcln

\* The controller as one cleanup() leaves it.
Cleaned ==
    /\ released
    /\ pin_states = EmptyDict
    /\ backend # "mock" => setup_pins = {}
    /\ \A d \in Devices : ~device_status[d]
    /\ \A n \in TimerIds : timers[n].state # "waiting"

\* C11: every step of a cleanup() call, also of one that the signal handler
\* runs while main()'s own call is suspended, puts its part of the final
\* state in place (no timer waiting, every status false, the driver
\* released); and a step taken on a controller that a cleanup() already
\* left clean changes nothing of it.
C11_CleanupIdempotent ==
    [][/\ CleanupStepAt("idle")
          => \A n \in TimerIds : timers'[n].state # "waiting"
       /\ CleanupStepAt("status")
          => \A d \in Devices : ~device_status'[d]
       /\ CleanupStepAt("gpio")
          => /\ released' /\ pin_states' = EmptyDict
             /\ backend # "mock" => setup_pins' = {}
       /\ (Cleaned /\ (cln' # cln \/ sigcln' # sigcln))
          => /\ UNCHANGED <<gpioVars, device_status, device_timers>>
             /\ \A n \in TimerIds : timers'[n].state = timers[n].state
      ]_vars

\* The signal handler interrupted main()'s second cleanup() before its last
\* step and has completed a cleanup() of its own: the controller is clean.
C11_Witness ==
    /\ main = "cleanup" /\ cln = "gpio"
    /\ sig = "stop_scheduler"
    /\ Cleaned
    /\ \E n \in TimerIds : timers[n].state = "cancelled"

\* C12: a cleanup() of the shutdown begins only once the scheduler loop is
\* stopped, and no job fires once a cleanup() of the shutdown has begun.
C12_SchedulerStoppedFirst ==
    [][/\ CleanupStepAt("idle") => ~running
       /\ (call[WorkerThread].pc # "output" /\ call'[WorkerThread].pc = "output")
          => (main = "serving" /\ sig = "none")
      ]_vars

\* A Schedule Store call of the given kind returns in this step.
StoreReturns(op) == store_ops' # store_ops /\ store_call'.op = op

\* The arguments name a registered device, an action on/off and a two-digit
\* HH:MM time with hour <= 23 and minute <= 59.
WellFormedTriple(c) ==
    /\ c.device \in Devices
    /\ c.action \in {"on", "off"}
    /\ ClockShape(c.time)
    /\ HourOf(c.time) <= 23 /\ MinuteOf(c.time) <= 59

\* C13: an add_schedule whose device is not registered, whose action is
\* not on/off or whose time is not a two-digit HH:MM within 00:00..23:59
\* returns False and changes neither the store nor the file.
C13_AddRejectsInvalid ==
    [][(StoreReturns("add") /\ ~WellFormedTriple(store_call'))
       => /\ store_call'.ret = FALSE
          /\ UNCHANGED <<DEVICE_SCHEDULES, schedule_file>>
      ]_vars

\* C14: after an add_schedule of a valid triple returned True,
\* get_schedules(device) has the time under the action, and when the file
\* is writable a load_schedules() of a fresh process yields the store.
C14_AddThenGetAndReload ==
    [][(StoreReturns("add") /\ WellFormedTriple(store_call')
        /\ store_call'.ret)
       => /\ LET node == GetSchedules(store_call.device)'
             IN /\ store_call'.action \in DOMAIN node
                /\ InList(store_call'.time, node[store_call'.action])
          /\ writable
             => LoadSchedules(EmptyDict, schedule_file', environ)
                = DEVICE_SCHEDULES'
      ]_vars

\* How many times x occurs in list.
Occurrences(x, list) == Cardinality({i \in 1..Len(list) : list[i] = x})

\* The step is a call with the arguments of the call before it.
SameArguments ==
    /\ store_call'.device = store_call.device
    /\ store_call'.action = store_call.action
    /\ store_call'.time = store_call.time

\* C15: an add_schedule of a valid triple made right after an add_schedule
\* of the same triple returns True, leaves the store as it was, and the
\* store has the time exactly once under the action.
C15_AddTwiceIsAddOnce ==
    [][(StoreReturns("add") /\ store_call.op = "add" /\ SameArguments
        /\ WellFormedTriple(store_call'))
       => /\ store_call'.ret
          /\ DEVICE_SCHEDULES' = DEVICE_SCHEDULES
          /\ Occurrences(store_call'.time,
                         ListOf(DEVICE_SCHEDULES', store_call'.device,
                                store_call'.action)) = 1
      ]_vars

\* The triple of the call is absent from the store.
TripleAbsent(c) ==
    ~(/\ c.device \in DOMAIN DEVICE_SCHEDULES
      /\ c.action \in DOMAIN DEVICE_SCHEDULES[c.device]
      /\ \E i \in 1..Len(DEVICE_SCHEDULES[c.device][c.action]) :
            DEVICE_SCHEDULES[c.device][c.action][i] = c.time)

\* C16: a remove_schedule of a triple that is not in the store returns
\* False and changes neither the store nor the file.
C16_RemoveAbsentIsNoOp ==
    [][(StoreReturns("remove") /\ TripleAbsent(store_call'))
       => /\ store_call'.ret = FALSE
          /\ UNCHANGED <<DEVICE_SCHEDULES, schedule_file>>
      ]_vars

\* A remove_schedule returned False for a time that the list of its device
\* and action, which holds another time, does not have.
C16_Witness ==
    /\ store_call.op = "remove" /\ ~store_call.ret
    /\ ListOf(DEVICE_SCHEDULES, store_call.device, store_call.action) # <<>>
    /\ MatchesTimePattern(store_call.time)
    /\ schedule_file.exists /\ schedule_file.valid

\* Every device of the store has an action and every action has a time.
NoEmptyNode ==
    \A d \in DOMAIN DEVICE_SCHEDULES :
        /\ DOMAIN DEVICE_SCHEDULES[d] # {}
        /\ \A a \in DOMAIN DEVICE_SCHEDULES[d] : DEVICE_SCHEDULES[d][a] # <<>>

\* The call removes the only time the device has in the store.
RemovesLastTime(c) ==
    /\ c.device \in DOMAIN DEVICE_SCHEDULES
    /\ DOMAIN DEVICE_SCHEDULES[c.device] = {c.action}
    /\ DEVICE_SCHEDULES[c.device][c.action] = <<c.time>>

\* C17: the store never holds a device without an action or an action
\* without a time, and a remove_schedule of the last time of a device
\* removes the key of the device.
C17_NoEmptyNodes ==
    /\ []NoEmptyNode
    /\ [][(StoreReturns("remove") /\ RemovesLastTime(store_call'))
          => store_call'.device \notin DOMAIN DEVICE_SCHEDULES'
         ]_vars

\* A remove_schedule took the last time of its device, whose key is gone,
\* while another device is still in the store.
C17_Witness ==
    /\ store_call.op = "remove" /\ store_call.ret
    /\ store_call.device \notin DOMAIN DEVICE_SCHEDULES
    /\ DEVICE_SCHEDULES # EmptyDict

\* C18: in every state of the store, the times under each device and
\* action are in strictly ascending order (so without a duplicate).
C18_TimesSortedUnique ==
    \A d \in DOMAIN DEVICE_SCHEDULES :
        \A a \in DOMAIN DEVICE_SCHEDULES[d] :
            \A i \in 1..(Len(DEVICE_SCHEDULES[d][a]) - 1) :
                StrLess(DEVICE_SCHEDULES[d][a][i], DEVICE_SCHEDULES[d][a][i + 1])

\* The call changes the store: an add_schedule of a valid triple that is
\* absent, or a remove_schedule of a triple that is present.
Mutating(c) ==
    \/ c.op = "add" /\ WellFormedTriple(c) /\ TripleAbsent(c)
    \/ c.op = "remove" /\ ~TripleAbsent(c)

\* C19: a call that changes the store while the file cannot be written
\* returns False (it returns: no exception) and the store has the change:
\* the added time once, or one occurrence less of the removed time.
C19_UnwritableGivesFalse ==
    [][(store_ops' # store_ops /\ Mutating(store_call') /\ ~writable)
       => /\ store_call'.ret = FALSE
          /\ LET c == store_call'
                 before == Occurrences(c.time, ListOf(DEVICE_SCHEDULES,
                                                      c.device, c.action))
                 after == Occurrences(c.time, ListOf(DEVICE_SCHEDULES',
                                                     c.device, c.action))
             IN IF c.op = "add" THEN after = 1 ELSE after = before - 1
      ]_vars

\* A remove_schedule returned False because the file is not writable: the
\* time is gone from the store and still in the file.
C19_Witness ==
    /\ ~writable
    /\ store_call.op = "remove" /\ ~store_call.ret
    /\ TripleAbsent(store_call)
    /\ schedule_file.exists /\ schedule_file.valid
    /\ InList(store_call.time,
              ListOf(JsonLoad(schedule_file.text), store_call.device,
                     store_call.action))

\* C20: whenever an add_schedule or a remove_schedule returns True, the
\* file exists and its content is the in-memory store.
C20_TrueMeansPersisted ==
    [][(store_ops' # store_ops /\ store_call'.ret)
       => /\ schedule_file'.exists /\ schedule_file'.valid
          /\ JsonLoad(schedule_file'.text) = DEVICE_SCHEDULES'
      ]_vars

\* The tokens of declaration i that the claim keeps: two digits, a colon,
\* two digits, hour <= 23, minute <= 59 (surrounding blanks apart).
KeptTokens(i) ==
    SelectSeq([k \in 1..Len(environ[i].value) |-> Strip(environ[i].value[k])],
              LAMBDA t : /\ ClockShape(t)
                         /\ HourOf(t) <= 23 /\ MinuteOf(t) <= 59)

\* The declarations that count for (device, action): those with a token kept.
Declaring(d, a) ==
    {i \in 1..Len(environ) : /\ environ[i].device = d /\ environ[i].action = a
                              /\ KeptTokens(i) # <<>>}

\* The store holds what the environment declares: an entry for a registered
\* device and an action on/off with a declaration that counts, holding the
\* kept tokens of the (last such) declaration, and nothing else.
LoadedFromEnvironment ==
    /\ DOMAIN DEVICE_SCHEDULES \subseteq Devices
    /\ \A d \in DOMAIN DEVICE_SCHEDULES :
          /\ DOMAIN DEVICE_SCHEDULES[d] # {}
          /\ DOMAIN DEVICE_SCHEDULES[d] \subseteq {"on", "off"}
    /\ \A d \in Devices, a \in {"on", "off"} :
          IF Declaring(d, a) = {}
          THEN ListOf(DEVICE_SCHEDULES, d, a) = <<>>
          ELSE ListOf(DEVICE_SCHEDULES, d, a) =
                  KeptTokens(CHOOSE i \in Declaring(d, a) :
                                \A k \in Declaring(d, a) : k <= i)

\* The store holds the content of the file.
LoadedFromFile == DEVICE_SCHEDULES = JsonLoad(schedule_file.text)

\* The import left the store as the load-on-init policy says.
LoadedByPolicy ==
    imported = "yes"
    => IF schedule_file.exists /\ schedule_file.decodes /\ schedule_file.valid
       THEN LoadedFromFile ELSE LoadedFromEnvironment

\* C21: the load on import takes the JSON file when it exists and parses and
\* the environment declarations otherwise, accepting there only registered
\* devices, actions on/off and two-digit HH:MM tokens in range; and the load
\* never fails.
C21_LoadOnInit == LoadedByPolicy /\ imported # "raised"

\* The triple is an entry of the Schedule Store.
InStore(device, action, time_str) ==
    InList(time_str, ListOf(DEVICE_SCHEDULES, device, action))

\* C22: in every reachable state each live job, in scheduled_jobs and in the
\* library's table, is for a (device, action, time) that the Schedule Store
\* holds.
C22_JobsWithinStore ==
    /\ \A i \in 1..Len(scheduled_jobs) :
          InStore(scheduled_jobs[i].device, scheduled_jobs[i].action,
                  scheduled_jobs[i].time)
    /\ \A i \in 1..Len(jobs) :
          InStore(jobs[i].device, jobs[i].action, jobs[i].time)

\* C23: in every reachable state no two entries of the live job table have
\* the same (device, action, time).
C23_OneJobPerTriple ==
    \A i, k \in 1..Len(scheduled_jobs) :
        (/\ scheduled_jobs[i].device = scheduled_jobs[k].device
         /\ scheduled_jobs[i].action = scheduled_jobs[k].action
         /\ scheduled_jobs[i].time = scheduled_jobs[k].time) => i = k

\* A scheduler call of the given kind returns in this step.
SchedReturns(op) ==
    /\ sched_call'.pc = "idle" /\ sched_call'.op = op
    /\ \/ sched_call.pc # "idle"
       \/ scheduled_jobs' # scheduled_jobs \/ running' # running
       \/ sched_call' # sched_call \/ store_ops' # store_ops

\* The number of entries of the live job table with the triple.
JobsFor(sj, device, action, time_str) ==
    Cardinality({i \in 1..Len(sj) : /\ sj[i].device = device
                                    /\ sj[i].action = action
                                    /\ sj[i].time = time_str})

\* The live job table holds one job for each entry of the store, and each
\* of its jobs is registered in the library's table.
OneJobPerEntry(sj, js, store) ==
    /\ \A d \in DOMAIN store : \A a \in DOMAIN store[d] :
          \A k \in 1..Len(store[d][a]) : JobsFor(sj, d, a, store[d][a][k]) = 1
    /\ \A i \in 1..Len(sj) :
          InList(sj[i].time, ListOf(store, sj[i].device, sj[i].action))
    /\ Len(js) = Len(sj)
    /\ \A i \in 1..Len(sj) : \E k \in 1..Len(js) : js[k].id = sj[i].job

\* C24: setup_schedules() leaves no job that was live before it; with
\* scheduling disabled both tables are empty after it, and with scheduling
\* enabled the live jobs are one for each entry of the Schedule Store and
\* no other.
C24_SetupRebuildsJobs ==
    [][SchedReturns("setup")
       => /\ \A i \in 1..Len(scheduled_jobs') :
                scheduled_jobs'[i].job > created
          /\ \A i \in 1..Len(jobs') : jobs'[i].id > created
          /\ IF ENABLE_SCHEDULING
             THEN OneJobPerEntry(scheduled_jobs', jobs', DEVICE_SCHEDULES)
             ELSE scheduled_jobs' = <<>> /\ jobs' = <<>>
      ]_vars

\* C25: when remove_schedule of the scheduler goes to the store, no live job
\* with its triple is left (the job was cancelled first); what it returns
\* is what the store's remove_schedule returned, with or without a live job;
\* and after it no live job with the triple remains in either table.
C25_RemoveCancelsThenRemoves ==
    [][/\ sched_call.pc = "config"
          => /\ JobsFor(scheduled_jobs, sched_call.device, sched_call.action,
                        sched_call.time) = 0
             /\ JobsFor(jobs, sched_call.device, sched_call.action,
                        sched_call.time) = 0
       /\ SchedReturns("remove")
          => /\ sched_call'.ret = store_call'.ret
             /\ store_call'.op = "remove"
             /\ JobsFor(scheduled_jobs', sched_call.device, sched_call.action,
                        sched_call.time) = 0
             /\ JobsFor(jobs', sched_call.device, sched_call.action,
                        sched_call.time) = 0
      ]_vars

JobInvokes == worker.pc = "batch" /\ worker'.pc \in {"job", "notify"}

\* C26: a job that fires calls turn_on for action on and turn_off for action
\* off, on its device and without a timeout; when the call returns the
\* device has no pending timer and its status is the action's; and the job
\* then makes one notification with its device, its action and the result of
\* the call (False for a device that is not registered).
C26_JobFires ==
    [][/\ (JobInvokes /\ KnownDevice(CurrentJob.device))
          => /\ call'[WorkerThread].pc = "output"
             /\ call'[WorkerThread].op = CurrentJob.action
             /\ call'[WorkerThread].dev = CurrentJob.device
             /\ ~call'[WorkerThread].tmo
       /\ (JobInvokes /\ ~KnownDevice(CurrentJob.device))
          => /\ worker'.pc = "notify" /\ ~worker'.success
             /\ UNCHANGED <<gpioVars, ctlVars>>
       /\ (worker.pc = "job" /\ worker'.pc = "notify")
          => /\ worker'.success
             /\ device_timers'[CurrentJob.device] = None
             /\ \A n \in TimerIds :
                   ~(/\ timers'[n].state = "waiting"
                     /\ timers'[n].device = CurrentJob.device)
             /\ device_status'[CurrentJob.device] = (CurrentJob.action = "on")
       /\ worker.pc = "notify"
          => (worker' # worker
              => /\ Len(notified') = Len(notified) + 1
                 /\ notified'[Len(notified')].device = CurrentJob.device
                 /\ notified'[Len(notified')].action = CurrentJob.action
                 /\ notified'[Len(notified')].success = worker.success)
       /\ worker.pc # "notify" => notified' = notified
      ]_vars

\* The only timer ever installed on the pump was cancelled, and a job on
\* the pump has notified its success: the job's call cancelled the timer.
C26_Witness ==
    /\ Cardinality(UsedTimers) = 1
    /\ \A n \in UsedTimers : timers[n].state = "cancelled"
    /\ \E i \in 1..Len(notified) :
          notified[i].device = "pump" /\ notified[i].success
    /\ \E i \in 1..Len(notified) : ~notified[i].success

\* The jobs of the pass of run_pending() in progress have all fired: the
\* last notifications are theirs, in their order.
BatchFired ==
    LET n == Len(worker.batch)
        off == Len(notified') - n
    IN /\ off >= 0
       /\ \A i \in 1..n :
             /\ notified'[off + i].device = worker.batch[i].device
             /\ notified'[off + i].action = worker.batch[i].action

\* C27: run_pending() takes every job that is due, and the thread gets back
\* to its loop (and its sleep) only when each of them has called the
\* controller and notified; a notification that fails, for want of a bot or
\* by an exception, leaves the job normally and the next job runs.
C27_AllDueJobsFire ==
    [][/\ (worker.pc = "loop" /\ worker'.pc = "batch")
          => worker'.batch = SelectSeq(jobs, LAMBDA j : j.due)
       /\ (InTick /\ worker'.pc = "loop") => BatchFired
       /\ (worker.pc = "notify" /\ worker' # worker)
          => /\ worker'.pc = "batch"
             /\ worker'.idx = worker.idx + 1
             /\ worker'.batch = worker.batch
       /\ (JobInvokes /\ worker.idx > 1)
          => Len(notified) >= worker.idx - 1
      ]_vars

\* Two jobs fired in one pass: the notification of the first failed, the
\* second one was sent, and the thread is back at its loop.
C27_Witness ==
    /\ worker.pc = "loop" /\ Len(worker.batch) = 2
    /\ Len(notified) = 2
    /\ notified[1].outcome = "error"
    /\ notified[2].outcome = "sent"

\* C28: stop() on a running scheduler puts the flag down and waits; it
\* returns, and when it returns both job tables are empty and the flag is
\* down, whether the thread has ended or is still inside a job.
C28_StopClearsJobs ==
    /\ [][/\ (CallerIdle /\ running /\ sched_call'.op = "stop"
              /\ sched_call' # sched_call)
             => ~running' /\ sched_call'.pc = "join"
          /\ (sched_call.pc = "join" /\ sched_call'.pc = "idle")
             => /\ scheduled_jobs' = <<>> /\ jobs' = <<>>
                /\ ~running'
         ]_vars
    /\ (sched_call.pc = "join") ~> (sched_call.pc = "idle")

\* stop() has returned while the thread was inside a job's call of the
\* controller; the tables are empty.
C28_Witness ==
    /\ sched_call.op = "stop" /\ sched_call.pc = "idle"
    /\ worker.pc = "job"
    /\ scheduled_jobs = <<>> /\ jobs = <<>>

\* stop() was called on the running scheduler and has returned.
StopReturned ==
    sched_call.op = "stop" /\ sched_call.pc = "idle" /\ ~running

\* C29: once stop() has returned, no job calls the controller.
C29_NoJobAfterStop == [][StopReturned => ~JobInvokes]_vars

\* Timer n has fired and waits for the lock while its device holds the
\* handle of a newer timer that is started: a command with a timeout on the
\* device came after the expiry and has returned.
Superseded(n) ==
    /\ call[n].pc = "acquire"
    /\ device_timers[call[n].dev] \notin {None, n}
    /\ timers[device_timers[call[n].dev]].state = "waiting"

\* C36: the callback of a fired timer that gets the lock after a newer
\* command on its device has returned leaves that command's work alone: the
\* timer the command installed stays started and stays the device's timer,
\* and the status and the pin keep what the command set.
C36_StaleTimerYields ==
    [][\A n \in TimerIds :
          (Superseded(n) /\ call'[n] # call[n])
          => /\ device_timers'[call[n].dev] = device_timers[call[n].dev]
             /\ timers'[device_timers[call[n].dev]].state = "waiting"
             /\ call'[n].pc # "output"
             /\ UNCHANGED <<device_status, pin_states>>
      ]_vars

\* C38: when add_schedule of the scheduler returns True with scheduling
\* enabled, the live job table and the library's table hold a job for the
\* triple it was called with.
C38_AcceptedMeansScheduled ==
    [][(SchedReturns("add") /\ sched_call'.ret /\ ENABLE_SCHEDULING)
       => /\ JobsFor(scheduled_jobs', sched_call'.device, sched_call'.action,
                     sched_call'.time) >= 1
          /\ JobsFor(jobs', sched_call'.device, sched_call'.action,
                     sched_call'.time) >= 1
      ]_vars

\* A call of add_schedule, remove_schedule, start or stop returns in this
\* step.
InterfaceReturns ==
    \E op \in {"add", "remove", "start", "stop"} : SchedReturns(op)

\* C39: a call of add_schedule, remove_schedule, start or stop that finds
\* both job tables empty and returns with scheduling disabled or with the
\* scheduler not running leaves them empty; and a stop() on a scheduler that
\* is not running changes neither the flag, nor the thread, nor the tables.
C39_IdleSchedulerHasNoJobs ==
    [][/\ (/\ InterfaceReturns
           /\ scheduled_jobs = <<>> /\ jobs = <<>>
           /\ ~ENABLE_SCHEDULING \/ ~running')
          => scheduled_jobs' = <<>> /\ jobs' = <<>>
       /\ (CallerIdle /\ ~running /\ SchedReturns("stop"))
          => UNCHANGED <<running, worker, scheduled_jobs, jobs, created>>
      ]_vars

\* The pin is not configured: setup() was never called for it, or only
\* before the driver's last cleanup() (the controller configures its pins
\* once, when it is constructed).
Unconfigured(pin) == pin \notin setup_pins \/ released

\* C34: on the emulation driver and on the recording driver of the tests, an
\* output() on a pin that is not configured raises, and no pin level
\* changes.
C34_UnconfiguredWriteFails ==
    [][\A t \in Threads :
          (/\ call[t].pc = "output" /\ call'[t] # call[t]
           /\ backend \in {"emulation", "mock"}
           /\ Unconfigured(DEVICE_TO_PIN[call[t].dev]))
          => /\ call'[t].pc # "status"
             /\ pin_states' = pin_states
      ]_vars

\* C37: until the final shutdown a turn_on of a registered device, by a
\* command or by a job, writes the pin HIGH and returns True with the status
\* true, also after the transport crashed and main() restarted it.
C37_DeviceStaysControllable ==
    [][\A t \in Callers :
          (/\ call[t].op = "on" /\ call'[t] # call[t]
           /\ main \in {"serving", "crashed", "sleeping"})
          => /\ call[t].pc = "output"
                => /\ call'[t].pc = "status"
                   /\ DEVICE_TO_PIN[call[t].dev] \in DOMAIN pin_states'
                   /\ pin_states'[DEVICE_TO_PIN[call[t].dev]]
             /\ call[t].pc = "status"
                => /\ device_status'[call[t].dev]
                   /\ DEVICE_TO_PIN[call[t].dev] \in DOMAIN pin_states'
                   /\ pin_states'[DEVICE_TO_PIN[call[t].dev]]
      ]_vars

Permutations(n) ==
    {p \in [1..n -> 1..n] : \A i, k \in 1..n : p[i] = p[k] => i = k}

\* C33: get_next_runs() returns one entry for each live job, with the job's
\* device, action, time and formatted next run, in ascending order of the
\* next runs, and it changes neither job table.
C33_NextRunsSorted ==
    [][SchedReturns("next_runs")
       => /\ UNCHANGED <<scheduled_jobs, jobs>>
          /\ Len(sched_call'.ret) = Len(scheduled_jobs)
          /\ \E p \in Permutations(Len(scheduled_jobs)) :
                /\ \A i \in 1..Len(scheduled_jobs) :
                      sched_call'.ret[i] = RunEntry(scheduled_jobs[p[i]], jobs)
                /\ \A i \in 1..(Len(scheduled_jobs) - 1) :
                      Stamp(JobOf(jobs, scheduled_jobs[p[i]].job).next_run)
                      <= Stamp(JobOf(jobs,
                                     scheduled_jobs[p[i + 1]].job).next_run)
      ]_vars

\* get_next_runs() has returned the jobs in another order than the table
\* holds them: a job of tomorrow morning was registered before one of this
\* evening.
C33_Witness ==
    /\ sched_call.op = "next_runs"
    /\ Len(sched_call.ret) >= 2
    /\ sched_call.ret[1].time = T2000
    /\ scheduled_jobs[1].time = T0800
    /\ jobs[1].next_run.day = 2

\* The thread that a start() replaced begins another schedule.run_pending().
FormerPolls == former.pc = "loop" /\ former'.pc = "batch"

\* C31: whatever start() and stop() calls were made, at most one thread of
\* _run_scheduler is alive and polling the job table: a thread that a later
\* start() replaced, its stop() having returned before it ended, never
\* polls while the scheduler's thread is alive.
C31_OneWorkerLoop == [][FormerPolls => ~ThreadAlive(worker)]_vars

\* stop() cleared the running flag and waits for the thread.
StopWaits == sched_call.op = "stop" /\ sched_call.pc = "join"

\* C32: once stop() has cleared the running flag, the thread it stopped
\* ends: with the flag down it does not begin another run of due jobs,
\* neither as the scheduler's thread nor after a start() replaced it, and it
\* eventually leaves its loop.
C32_StoppedWorkerExits ==
    /\ [][(~running /\ worker.pc = "loop") => worker'.pc # "batch"]_vars
    /\ [][~FormerPolls]_vars
    /\ StopWaits ~> (worker.pc = "exited" \/ former.pc = "exited")

\* run_pending() of the replaced thread calls a job.
FormerInvokes == former.pc = "batch" /\ former'.pc \in {"job", "notify"}

\* Job id is in schedule.jobs: scheduled, not cancelled.
Live(js, id) == \E i \in 1..Len(js) : js[i].id = id

\* Job id is in the table and waits for its next daily occurrence.
Waiting(js, id) == \E i \in 1..Len(js) : js[i].id = id /\ ~js[i].due

\* C35: a job goes unscheduled -> scheduled -> (fired -> scheduled |
\* cancelled). A scheduled job that fired is in the job table afterwards,
\* waiting for its next daily occurrence; and a job that remove_schedule or
\* stop() cancelled is not called afterwards, also when it was cancelled
\* while the thread was running the due jobs of its tick.
C35_JobLifecycle ==
    /\ [][(worker.pc = "notify" /\ worker'.pc # "notify"
                /\ Live(jobs, CurrentJob.id))
           => Waiting(jobs', CurrentJob.id)]_vars
    /\ [][JobInvokes => Live(jobs, CurrentJob.id)]_vars
    /\ [][FormerInvokes => Live(jobs, FormerJob.id)]_vars

============================================================================
